---- MODULE Spec2Model ----
(***************************************************************************)
(* Rule database subsystem of cursorrules-mcp: the version manager, the    *)
(* conflict detector, the index builder of RuleDatabase and the search     *)
(* engine of RuleEngine.                                                   *)
(*                                                                         *)
(* Python objects are modelled with identity: `heap` is the sequence of    *)
(* the CursorRule objects the database holds, an object id is an index     *)
(* into it, and the version history and the live rule map hold object      *)
(* ids, as the Python containers hold references.                          *)
(*                                                                         *)
(* Strings that the code takes apart (version strings, names,              *)
(* descriptions, guidelines, queries) are sequences of one-character       *)
(* strings.                                                                *)
(***************************************************************************)
EXTENDS Integers, Sequences, FiniteSets, TLC

VARIABLES heap, version_history, latest_versions, rules, rule_index,
          initialized, disk, now, eng_rules, eng_index, eng_ready, last

vars == <<heap, version_history, latest_versions, rules, rule_index,
          initialized, disk, now, eng_rules, eng_index, eng_ready, last>>

-----------------------------------------------------------------------------
(* Bounds of the model.                                                    *)

\* Number of CursorRule objects the heap may hold: where versions are
\* registered, where rules are added and updated, and where the engine
\* searches.
MaxObjs == 3

MaxHeld == 2

MaxSearchObjs == 4

\* Largest value of the wall clock (seconds).
MaxClock == 1

\* Number of dimensions a search filter of the model constrains.
MaxFilterDims == 1

-----------------------------------------------------------------------------
(* Characters and strings.                                                 *)

\* The characters of version strings in code-point order: '.' < digits < 'x'.
CharOrder == <<".", "0", "1", "2", "3", "4", "5", "6", "7", "8", "9", "x">>

Ord(c) == CHOOSE i \in 1..Len(CharOrder) : CharOrder[i] = c

IsDigit(c) == c \in {"0", "1", "2", "3", "4", "5", "6", "7", "8", "9"}

DigitVal(c) == Ord(c) - 2

\* Python's str comparison s > t: by code point, a proper prefix is smaller.
RECURSIVE StrGreater(_, _)
StrGreater(s, t) ==
    IF s = <<>> THEN FALSE
    ELSE IF t = <<>> THEN TRUE
    ELSE IF Ord(Head(s)) # Ord(Head(t)) THEN Ord(Head(s)) > Ord(Head(t))
    ELSE StrGreater(Tail(s), Tail(t))

\* str.lower() on the letters the model uses.
LowerChar(c) ==
    CASE c = "A" -> "a"
      [] c = "B" -> "b"
      [] c = "C" -> "c"
      [] c = "D" -> "d"
      [] c = "L" -> "l"
      [] OTHER -> c

Lower(s) == [i \in 1..Len(s) |-> LowerChar(s[i])]

\* Python's `q in s` for strings.
Contains(s, q) ==
    \E i \in 0..(Len(s) - Len(q)) :
        \A j \in 1..Len(q) : s[i + j] = q[j]

\* str.split('.') : the components between the dots.
RECURSIVE SplitDots(_, _)
SplitDots(s, cur) ==
    IF s = <<>> THEN <<cur>>
    ELSE IF Head(s) = "." THEN <<cur>> \o SplitDots(Tail(s), <<>>)
    ELSE SplitDots(Tail(s), Append(cur, Head(s)))

\* int(digits)
RECURSIVE ParseInt(_, _)
ParseInt(s, acc) ==
    IF s = <<>> THEN acc
    ELSE ParseInt(Tail(s), 10 * acc + DigitVal(Head(s)))

\* str(n) for n >= 0
RECURSIVE IntToStr(_)
IntToStr(n) ==
    IF n < 10 THEN <<CharOrder[n + 2]>>
    ELSE Append(IntToStr(n \div 10), CharOrder[(n % 10) + 2])

-----------------------------------------------------------------------------
(* packaging.version                                                       *)

\* version.parse(v): over the characters of CharOrder a string is a valid
\* version exactly when it is N(.N)*; anything else raises InvalidVersion.
VersionValid(v) ==
    LET parts == SplitDots(v, <<>>)
    IN  \A k \in 1..Len(parts) :
            /\ parts[k] # <<>>
            /\ \A j \in 1..Len(parts[k]) : IsDigit(parts[k][j])

\* Version.release : the tuple of the numeric components.
Release(v) ==
    LET parts == SplitDots(v, <<>>)
    IN  [k \in 1..Len(parts) |-> ParseInt(parts[k], 0)]

\* Version._key compares releases with the trailing zeros removed.
RECURSIVE StripTrailingZeros(_)
StripTrailingZeros(r) ==
    IF r = <<>> THEN r
    ELSE IF r[Len(r)] = 0 THEN StripTrailingZeros(SubSeq(r, 1, Len(r) - 1))
    ELSE r

\* Python's tuple comparison a > b
RECURSIVE TupleGreater(_, _)
TupleGreater(a, b) ==
    IF a = <<>> THEN FALSE
    ELSE IF b = <<>> THEN TRUE
    ELSE IF Head(a) # Head(b) THEN Head(a) > Head(b)
    ELSE TupleGreater(Tail(a), Tail(b))

VersionKey(v) == StripTrailingZeros(Release(v))

\* version.parse(v1) > version.parse(v2), both valid
VersionGreater(v1, v2) == TupleGreater(VersionKey(v1), VersionKey(v2))

\* Version.major / .minor / .micro
Major(v) == LET r == Release(v) IN IF Len(r) >= 1 THEN r[1] ELSE 0
Minor(v) == LET r == Release(v) IN IF Len(r) >= 2 THEN r[2] ELSE 0
Micro(v) == LET r == Release(v) IN IF Len(r) >= 3 THEN r[3] ELSE 0

-----------------------------------------------------------------------------
(* The rule model (models.py).                                             *)

RuleIds == {"CR-1", "CR-2", "CR-3"}

\* success_rate is a float in [0, 1]; the model stores the numerator of
\* success_rate = n / SuccessRateUnit.
SuccessRateUnit == 2

\* RuleCondition
Cond(c, g, p) == [condition |-> c, guideline |-> g, priority |-> p]

V100 == <<"1", ".", "0", ".", "0">>
V110 == <<"1", ".", "1", ".", "0">>
V120 == <<"1", ".", "2", ".", "0">>
V1100 == <<"1", ".", "1", "0", ".", "0">>
VBad == <<"x">>

\* str.strip() of the blanks and line breaks at both ends
RECURSIVE Strip(_)
Strip(s) ==
    IF s = <<>> THEN s
    ELSE IF Head(s) \in {" ", "\n"} THEN Strip(Tail(s))
    ELSE IF s[Len(s)] \in {" ", "\n"} THEN Strip(SubSeq(s, 1, Len(s) - 1))
    ELSE s

\* CursorRule.validate_tags: [tag.lower().strip() for tag in v if tag.strip()]
RECURSIVE validate_tags(_)
validate_tags(v) ==
    IF v = <<>> THEN <<>>
    ELSE IF Strip(Head(v)) # <<>>
         THEN <<Strip(Lower(Head(v)))>> \o validate_tags(Tail(v))
         ELSE validate_tags(Tail(v))

\* CursorRule(**data): the validators run on construction.
CursorRule(data) == [data EXCEPT !.tags = validate_tags(@)]

\* The field values a caller or a rule file supplies.  Everything but the
\* identifier, the version, conflicts_with and active is fixed per identifier.
MkRule(id, ver, cw, act) ==
    [rule_id |-> id, version |-> ver, updated_at |-> 0,
     conflicts_with |-> cw, active |-> act, overrides |-> {},
     name |-> CASE id = "CR-1" -> <<"A", "b">>
                [] id = "CR-2" -> <<"B", "c">>
                [] OTHER -> <<"c">>,
     description |-> CASE id = "CR-1" -> <<"b", "c">>
                       [] id = "CR-2" -> <<"a">>
                       [] OTHER -> <<"a", "B">>,
     rule_type |-> CASE id = "CR-1" -> "style"
                     [] id = "CR-2" -> "content"
                     [] OTHER -> "style",
     languages |-> CASE id = "CR-1" -> {"python"}
                     [] id = "CR-2" -> {"python", "cpp"}
                     [] OTHER -> {"cpp"},
     domains |-> CASE id = "CR-1" -> {"web"}
                   [] id = "CR-2" -> {"web"}
                   [] OTHER -> {},
     content_types |-> CASE id = "CR-1" -> {"code"}
                         [] id = "CR-2" -> {"code", "documentation"}
                         [] OTHER -> {"documentation"},
     tags |-> CASE id = "CR-1" -> <<<<"L">>>>
                [] id = "CR-2" -> <<<<"l", " ">>, <<"d">>>>
                [] OTHER -> <<>>,
     rules |-> CASE id = "CR-1" -> <<Cond(<<"a">>, <<"a", "b">>, 8)>>
                 [] id = "CR-2" -> <<Cond(<<"a">>, <<"c">>, 5),
                                     Cond(<<"b">>, <<"B", "c">>, 10)>>
                 [] OTHER -> <<Cond(<<"a">>, <<"b">>, 9)>>,
     validation |-> CASE id = "CR-1" -> [tools |-> {"flake8"}, severity |-> "warning"]
                      [] id = "CR-2" -> [tools |-> {"flake8"}, severity |-> "error"]
                      [] OTHER -> [tools |-> {}, severity |-> "warning"],
     success_rate |-> CASE id = "CR-1" -> SuccessRateUnit
                        [] id = "CR-2" -> 0
                        [] OTHER -> 1]

\* The rule objects callers hand to add_rule / update_rule.
Catalog ==
    {CursorRule(d) : d \in
        {MkRule("CR-1", V100, {}, TRUE),
         MkRule("CR-1", V110, {"CR-2"}, TRUE),
         MkRule("CR-1", V120, {"CR-1"}, TRUE),
         MkRule("CR-2", V100, {}, TRUE),
         MkRule("CR-2", V110, {}, FALSE)}}

\* The rule files (*.json) the data directory may hold at start-up.
DiskRules == {MkRule("CR-2", V100, {}, FALSE)}

-----------------------------------------------------------------------------
(* Python dicts are functions whose domain is the set of keys.              *)

Put(d, k, v) == (k :> v) @@ d

Range(s) == {s[i] : i \in 1..Len(s)}

-----------------------------------------------------------------------------
(* RuleVersionManager (database.py)                                        *)

\* _is_newer_version with the version strings compared as strings.
IsNewerVersion_str(version1, version2) == StrGreater(version1, version2)

\* _is_newer_version: version.parse of either string may raise, and then the
\* strings are compared.
IsNewerVersion(version1, version2) ==
    IF VersionValid(version1) /\ VersionValid(version2)
    THEN VersionGreater(version1, version2)
    ELSE StrGreater(version1, version2)

\* list.sort(key=...) is a stable sort: o goes after the entries whose key is
\* not greater than its own.
RECURSIVE InsertByVersion(_, _, _)
InsertByVersion(h, sorted, o) ==
    IF sorted = <<>> THEN <<o>>
    ELSE IF VersionGreater(h[Head(sorted)].version, h[o].version)
         THEN <<o>> \o sorted
         ELSE <<Head(sorted)>> \o InsertByVersion(h, Tail(sorted), o)

RECURSIVE SortByVersion(_, _)
SortByVersion(h, list) ==
    IF list = <<>> THEN <<>>
    ELSE InsertByVersion(h, SortByVersion(h, SubSeq(list, 1, Len(list) - 1)),
                         list[Len(list)])

\* add_rule_version(rule) on the heap h, for the object o.  ret is "true"
\* or "false" for the value returned and "raised" when version.parse raises
\* in the sort key; the sort then leaves the list as it was.
add_rule_version(h, vh, lv, o) ==
    LET rule_id == h[o].rule_id
        vh1 == IF rule_id \in DOMAIN vh THEN vh ELSE Put(vh, rule_id, <<>>)
        lv1 == IF rule_id \in DOMAIN vh THEN lv ELSE Put(lv, rule_id, h[o].version)
        existing_versions == {h[r].version : r \in Range(vh1[rule_id])}
        vh2 == [vh1 EXCEPT ![rule_id] = Append(@, o)]
        lv2 == IF IsNewerVersion(h[o].version, lv1[rule_id])
               THEN [lv1 EXCEPT ![rule_id] = h[o].version]
               ELSE lv1
    IN  IF h[o].version \in existing_versions
        THEN [ret |-> "false", vh |-> vh1, lv |-> lv1]
        ELSE IF \A r \in Range(vh2[rule_id]) : VersionValid(h[r].version)
             THEN [ret |-> "true",
                   vh |-> [vh2 EXCEPT ![rule_id] = SortByVersion(h, @)],
                   lv |-> lv2]
             ELSE [ret |-> "raised", vh |-> vh2, lv |-> lv2]

\* get_latest_rule: the object id, or 0 for None.
get_latest_rule(h, vh, lv, rule_id) ==
    IF rule_id \notin DOMAIN vh THEN 0
    ELSE IF \E i \in 1..Len(vh[rule_id]) : h[vh[rule_id][i]].version = lv[rule_id]
         THEN vh[rule_id][CHOOSE i \in 1..Len(vh[rule_id]) :
                              /\ h[vh[rule_id][i]].version = lv[rule_id]
                              /\ \A j \in 1..(i - 1) :
                                     h[vh[rule_id][j]].version # lv[rule_id]]
         ELSE 0

\* get_rule_version: the object id, or 0 for None.
get_rule_version(h, vh, rule_id, rule_version) ==
    IF rule_id \notin DOMAIN vh THEN 0
    ELSE IF \E i \in 1..Len(vh[rule_id]) : h[vh[rule_id][i]].version = rule_version
         THEN vh[rule_id][CHOOSE i \in 1..Len(vh[rule_id]) :
                              /\ h[vh[rule_id][i]].version = rule_version
                              /\ \A j \in 1..(i - 1) :
                                     h[vh[rule_id][j]].version # rule_version]
         ELSE 0

-----------------------------------------------------------------------------
(* RuleConflictDetector (database.py)                                      *)

\* A scope check that leaves out the comparison of the rule types.
_check_scope_conflict_any_type(rule1, rule2) ==
    /\ rule1.languages \cap rule2.languages # {}
    /\ rule1.domains \cap rule2.domains # {}
    /\ rule1.content_types \cap rule2.content_types # {}

_check_scope_conflict(rule1, rule2) ==
    /\ rule1.languages \cap rule2.languages # {}
    /\ rule1.domains \cap rule2.domains # {}
    /\ rule1.content_types \cap rule2.content_types # {}
    /\ rule1.rule_type = rule2.rule_type

_check_validation_tool_conflict(rule1, rule2) ==
    /\ rule1.validation.tools # {}
    /\ rule2.validation.tools # {}
    /\ rule1.validation.tools \cap rule2.validation.tools # {}
    /\ rule1.validation.severity # rule2.validation.severity

\* detect_conflicts without the check of the declared conflicts.
detect_conflicts_undeclared(rule, all_rules) ==
    LET others == {r \in all_rules : r.rule_id # rule.rule_id}
    IN  {[type |-> "override", rule_id |-> r.rule_id, severity |-> "warning"] :
            r \in {x \in others : x.rule_id \in rule.overrides}}
        \cup
        {[type |-> "scope_overlap", rule_id |-> r.rule_id, severity |-> "warning"] :
            r \in {x \in others : _check_scope_conflict(rule, x)}}
        \cup
        {[type |-> "validation_tool_conflict", rule_id |-> r.rule_id, severity |-> "info"] :
            r \in {x \in others : _check_validation_tool_conflict(rule, x)}}

\* detect_conflicts returns a list of dicts; no two of them agree on both
\* type and rule_id, so the list is modelled by the set of its elements.
detect_conflicts(rule, all_rules) ==
    LET others == {r \in all_rules : r.rule_id # rule.rule_id}
    IN  {[type |-> "explicit_conflict", rule_id |-> r.rule_id, severity |-> "error"] :
            r \in {x \in others : x.rule_id \in rule.conflicts_with}}
        \cup
        {[type |-> "override", rule_id |-> r.rule_id, severity |-> "warning"] :
            r \in {x \in others : x.rule_id \in rule.overrides}}
        \cup
        {[type |-> "scope_overlap", rule_id |-> r.rule_id, severity |-> "warning"] :
            r \in {x \in others : _check_scope_conflict(rule, x)}}
        \cup
        {[type |-> "validation_tool_conflict", rule_id |-> r.rule_id, severity |-> "info"] :
            r \in {x \in others : _check_validation_tool_conflict(rule, x)}}

-----------------------------------------------------------------------------
(* RuleDatabase (database.py)                                              *)

\* A file of the data directory: its format and the rule dict it holds.
JsonFile(data) == [fmt |-> "json", data |-> data]
YamlFile(name, data) == [fmt |-> "yaml", name |-> name, data |-> data]

EmptyIndex == [languages |-> <<>>, domains |-> <<>>, types |-> <<>>, tags |-> <<>>]

\* _build_indexes: the index is cleared, then every rule of self.rules is
\* put into the bucket of each of its languages, domains and tags and of
\* its rule type.
_build_indexes(h, rl) ==
    [languages |-> [k \in UNION {h[rl[rid]].languages : rid \in DOMAIN rl} |->
                       {rid \in DOMAIN rl : k \in h[rl[rid]].languages}],
     domains |-> [k \in UNION {h[rl[rid]].domains : rid \in DOMAIN rl} |->
                       {rid \in DOMAIN rl : k \in h[rl[rid]].domains}],
     types |-> [k \in {h[rl[rid]].rule_type : rid \in DOMAIN rl} |->
                       {rid \in DOMAIN rl : k = h[rl[rid]].rule_type}],
     tags |-> [k \in UNION {Range(h[rl[rid]].tags) : rid \in DOMAIN rl} |->
                       {rid \in DOMAIN rl : k \in Range(h[rl[rid]].tags)}]]

\* An order in which os.walk yields the files
FileOrder(files) ==
    CHOOSE q \in [1..Cardinality(files) -> files] :
        \A i, j \in 1..Cardinality(files) : i # j => q[i] # q[j]

\* load_rules: one CursorRule per *.json file, keyed by its rule_id
LoadedHeap(files) ==
    LET q == FileOrder({f \in files : f.fmt = "json"})
    IN  [i \in 1..Len(q) |-> CursorRule(q[i].data)]

LoadedRules(h) ==
    [rid \in {h[i].rule_id : i \in 1..Len(h)} |->
        CHOOSE i \in 1..Len(h) :
            /\ h[i].rule_id = rid
            /\ \A j \in (i + 1)..Len(h) : h[j].rule_id # rid]

\* _get_rule_file_path
_get_rule_file_path(rule) ==
    <<rule.rule_id, [i \in 1..Len(rule.version) |->
                        IF rule.version[i] = "." THEN "_" ELSE rule.version[i]]>>

\* text.split('\n')
RECURSIVE SplitLines(_, _)
SplitLines(s, cur) ==
    IF s = <<>> THEN <<cur>>
    ELSE IF Head(s) = "\n" THEN <<cur>> \o SplitLines(Tail(s), <<>>)
    ELSE SplitLines(Tail(s), Append(cur, Head(s)))

\* len(line) - len(line.lstrip()) for a line without line break
RECURSIVE Indent(_)
Indent(line) ==
    IF line # <<>> /\ Head(line) = " " THEN 1 + Indent(Tail(line)) ELSE 0

\* ' ' * n
Spaces(n) == [i \in 1..n |-> " "]

\* '\n'.join(lines)
RECURSIVE JoinLines(_)
JoinLines(lines) ==
    IF lines = <<>> THEN <<>>
    ELSE IF Len(lines) = 1 THEN Head(lines)
    ELSE Head(lines) \o <<"\n">> \o JoinLines(Tail(lines))

\* format_multiline_text of save_rule: a text that holds a line break
\* becomes the character '|' followed by its lines, each indented by at
\* least two blanks; any other text is returned as it is.
format_multiline_text(text) ==
    IF \A i \in 1..Len(text) : text[i] # "\n" THEN text
    ELSE LET lines == SplitLines(text, <<>>)
             counted == {Indent(lines[k]) :
                            k \in {j \in 2..Len(lines) : Strip(lines[j]) # <<>>}}
             min_indent == IF counted = {} THEN 0
                           ELSE CHOOSE m \in counted : \A n \in counted : m <= n
             formatted(line) ==
                 IF Strip(line) # <<>>
                 THEN LET relative_indent == Indent(line) - min_indent + 2
                      IN  Spaces(IF relative_indent < 2 THEN 2 ELSE relative_indent)
                          \o SubSeq(line, Indent(line) + 1, Len(line))
                 ELSE <<" ", " ">>
         IN  JoinLines(<<<<"|">>>> \o [k \in 1..Len(lines) |-> formatted(lines[k])])

\* process_data of save_rule on the dict of the rule: every string of it
\* goes through format_multiline_text.  The identifier, the version and
\* the enum values hold no line break.
process_data(rule) ==
    [rule EXCEPT
        !.name = format_multiline_text(@),
        !.description = format_multiline_text(@),
        !.tags = [i \in 1..Len(rule.tags) |-> format_multiline_text(rule.tags[i])],
        !.rules = [i \in 1..Len(rule.rules) |->
                      Cond(format_multiline_text(rule.rules[i].condition),
                           format_multiline_text(rule.rules[i].guideline),
                           rule.rules[i].priority)]]

\* save_rule(rule, merge=False, append_mode=False): the file is
\* overwritten with the processed dict of the rule; yaml.dump and
\* yaml.safe_load give every string back as it was written.
save_rule(files, rule) ==
    {f \in files : ~(f.fmt = "yaml" /\ f.name = _get_rule_file_path(rule))}
    \cup {YamlFile(_get_rule_file_path(rule), process_data(rule))}

\* add_rule(rule, file_path) for the object o of heap h: the state it leaves
\* and what it returns ("true", "false") or "raised".
add_rule(h, vh, lv, rl, idx, dk, o, file_path) ==
    LET conflicts == detect_conflicts(h[o], {h[rl[k]] : k \in DOMAIN rl})
        reg == add_rule_version(h, vh, lv, o)
        rl2 == IF h[o].active THEN Put(rl, h[o].rule_id, o) ELSE rl
    IN  IF \E c \in conflicts : c.severity = "error"
        THEN [ret |-> "false", vh |-> vh, lv |-> lv, rl |-> rl, idx |-> idx, dk |-> dk]
        ELSE IF reg.ret # "true"
        THEN [ret |-> reg.ret, vh |-> reg.vh, lv |-> reg.lv, rl |-> rl,
              idx |-> idx, dk |-> dk]
        ELSE [ret |-> "true", vh |-> reg.vh, lv |-> reg.lv, rl |-> rl2,
              idx |-> _build_indexes(h, rl2),
              dk |-> IF file_path THEN save_rule(dk, h[o]) ELSE dk]

\* What update_rule writes into the rule before it calls add_rule.
BumpedVersion(lv, rule, t) ==
    IF rule.rule_id \in DOMAIN lv
    THEN IF VersionValid(lv[rule.rule_id])
         THEN IntToStr(Major(lv[rule.rule_id])) \o <<".">>
              \o IntToStr(Minor(lv[rule.rule_id])) \o <<".">>
              \o IntToStr(Micro(lv[rule.rule_id]) + 1)
         ELSE lv[rule.rule_id] \o <<".">> \o IntToStr(t)
    ELSE rule.version

update_rule_object(lv, rule, t) ==
    [rule EXCEPT !.version = BumpedVersion(lv, rule, t), !.updated_at = t]

\* get_rule(rule_id, version): the object id, or 0 for None
get_rule(h, vh, rl, rule_id, version) ==
    IF version # <<>>
    THEN get_rule_version(h, vh, rule_id, version)
    ELSE IF rule_id \in DOMAIN rl THEN rl[rule_id] ELSE 0

-----------------------------------------------------------------------------
(* RuleEngine (engine.py)                                                  *)

\* load_rules: self.rules is cleared, then every *.json file and after them
\* every *.yaml file is parsed and stored under its rule_id, so that of the
\* files of one rule_id the one read last stays; rglob fixes no order.
EngineLoads(files) ==
    LET ids == {f.data.rule_id : f \in files}
        last_read(rid) ==
            IF \E f \in files : f.fmt = "yaml" /\ f.data.rule_id = rid
            THEN {f \in files : f.fmt = "yaml" /\ f.data.rule_id = rid}
            ELSE {f \in files : f.data.rule_id = rid}
    IN  {m \in [ids -> {CursorRule(f.data) : f \in files}] :
            \A rid \in ids : \E f \in last_read(rid) : m[rid] = CursorRule(f.data)}

\* RuleEngine.build_indexes
build_indexes(er) ==
    [tags |-> [k \in UNION {Range(er[rid].tags) : rid \in DOMAIN er} |->
                  {rid \in DOMAIN er : k \in Range(er[rid].tags)}],
     languages |-> [k \in UNION {er[rid].languages : rid \in DOMAIN er} |->
                  {rid \in DOMAIN er : k \in er[rid].languages}],
     domains |-> [k \in UNION {er[rid].domains : rid \in DOMAIN er} |->
                  {rid \in DOMAIN er : k \in er[rid].domains}]]

\* index.get(key, set())
Bucket(index, key) == IF key \in DOMAIN index THEN index[key] ELSE {}

RECURSIVE SumPriority(_)
SumPriority(conds) ==
    IF conds = <<>> THEN 0 ELSE Head(conds).priority + SumPriority(Tail(conds))

\* _calculate_rule_score.  The score is the rational num / den: with
\* L conditions and W the text, tag, language, domain and content type
\* bonuses counted in halves,
\*   (sum/L * 0.1 + W/2) * (0.5 + 0.5 * success_rate)
\*     = (sum + 5*L*W) * (Unit + n) / (20 * L * Unit).
_calculate_rule_score(rule, f) ==
    LET L == IF rule.rules = <<>> THEN 1 ELSE Len(rule.rules)
        q == Lower(f.query)
        text == IF f.query # <<>>
                THEN (IF Contains(Lower(rule.name), q) THEN 6 ELSE 0)
                     + (IF Contains(Lower(rule.description), q) THEN 4 ELSE 0)
                     + 3 * Cardinality({i \in 1..Len(rule.rules) :
                              Contains(Lower(rule.rules[i].guideline), q)})
                ELSE 0
        W == text
             + 4 * Cardinality(f.tags \cap Range(rule.tags))
             + 3 * Cardinality(f.languages \cap rule.languages)
             + 3 * Cardinality(f.domains \cap rule.domains)
             + 2 * Cardinality(f.content_types \cap rule.content_types)
    IN  [num |-> (SumPriority(rule.rules) + 5 * L * W)
                  * (SuccessRateUnit + rule.success_rate),
         den |-> 20 * L * SuccessRateUnit]

ScoreGreater(a, b) == a.num * b.den > b.num * a.den

\* The sort without reverse=True.
RECURSIVE InsertByScore_ascending(_, _)
InsertByScore_ascending(sorted, item) ==
    IF sorted = <<>> THEN <<item>>
    ELSE IF ScoreGreater(Head(sorted).score, item.score)
         THEN <<item>> \o sorted
         ELSE <<Head(sorted)>> \o InsertByScore_ascending(Tail(sorted), item)

\* sorted(scores.items(), key=score, reverse=True) is stable: an item goes
\* after the items whose score is not smaller than its own.
RECURSIVE InsertByScore(_, _)
InsertByScore(sorted, item) ==
    IF sorted = <<>> THEN <<item>>
    ELSE IF ScoreGreater(item.score, Head(sorted).score)
         THEN <<item>> \o sorted
         ELSE <<Head(sorted)>> \o InsertByScore(Tail(sorted), item)

RECURSIVE SortByScore(_)
SortByScore(items) ==
    IF items = <<>> THEN <<>>
    ELSE InsertByScore(SortByScore(SubSeq(items, 1, Len(items) - 1)),
                       items[Len(items)])

\* The candidates of RuleEngine.search_rules
EngineCandidates(er, ei, f) ==
    LET by_language == IF f.languages # {}
                       THEN UNION {Bucket(ei.languages, l) : l \in f.languages}
                       ELSE DOMAIN er
        by_domain == IF f.domains # {}
                     THEN UNION {Bucket(ei.domains, d) : d \in f.domains}
                     ELSE DOMAIN er
        by_tag == IF f.tags # {}
                  THEN UNION {Bucket(ei.tags, t) : t \in f.tags}
                  ELSE DOMAIN er
    IN  DOMAIN er \cap by_language \cap by_domain \cap by_tag

\* The orders in which a set can be iterated
Orders(S) ==
    {q \in [1..Cardinality(S) -> S] :
        \A i, j \in 1..Cardinality(S) : i # j => q[i] # q[j]}

\* sorted_rules[:limit]
Truncate(seq, limit) == SubSeq(seq, 1, IF Len(seq) < limit THEN Len(seq) ELSE limit)

\* RuleEngine.search_rules, the candidate set being iterated in order q
search_rules(er, f, q) ==
    Truncate(SortByScore([i \in 1..Len(q) |->
                [rule_id |-> q[i], score |-> _calculate_rule_score(er[q[i]], f)]]),
             f.limit)

\* RuleDatabase.search_rules(query, languages, domains, rule_types, tags,
\* limit): the rule ids of the result before results[:limit]
DbMatches(h, rl, idx, f) ==
    LET q == Lower(f.query)
        named(rid) == \/ Contains(Lower(h[rl[rid]].name), q)
                      \/ Contains(Lower(h[rl[rid]].description), q)
        tagged(rid) == \E i \in 1..Len(h[rl[rid]].tags) :
                          Contains(Lower(h[rl[rid]].tags[i]), q)
        by(index, keys) == IF keys # {}
                           THEN UNION {Bucket(index, k) : k \in keys}
                           ELSE DOMAIN rl
    IN  IF f.languages = {} /\ f.domains = {} /\ f.rule_types = {} /\ f.tags = {}
        THEN {rid \in DOMAIN rl : named(rid) \/ tagged(rid)}
        ELSE {rid \in DOMAIN rl \cap by(idx.languages, f.languages)
                     \cap by(idx.domains, f.domains)
                     \cap by(idx.types, f.rule_types)
                     \cap by(idx.tags, f.tags) :
                 f.query = <<>> \/ named(rid)}

\* The search filters of the model: at most MaxFilterDims of the query and
\* the five dimensions are given.
Filters ==
    {f \in [query : {<<>>, <<"B">>},
            languages : {{}, {"python"}},
            domains : {{}, {"web"}},
            tags : {{}, {<<"l">>}},
            content_types : {{}, {"code"}},
            rule_types : {{}, {"style"}},
            limit : {1, 50}] :
        (IF f.query # <<>> THEN 1 ELSE 0) + (IF f.languages # {} THEN 1 ELSE 0)
        + (IF f.domains # {} THEN 1 ELSE 0) + (IF f.tags # {} THEN 1 ELSE 0)
        + (IF f.content_types # {} THEN 1 ELSE 0)
        + (IF f.rule_types # {} THEN 1 ELSE 0) <= MaxFilterDims}

-----------------------------------------------------------------------------
(* The state machine                                                       *)

\* The state after RuleDatabase(data_dir) and RuleEngine(rules_dir) are
\* constructed on a data directory holding the rule files `files`.
InitOf(DiskChoices) ==
    /\ \E files \in DiskChoices :
          /\ disk = {JsonFile(d) : d \in files}
          /\ heap = LoadedHeap({JsonFile(d) : d \in files})
    /\ rules = LoadedRules(heap)
    /\ version_history = <<>>
    /\ latest_versions = <<>>
    /\ rule_index = EmptyIndex
    /\ initialized = FALSE
    /\ now = 0
    /\ eng_rules = <<>>
    /\ eng_index = [tags |-> <<>>, languages |-> <<>>, domains |-> <<>>]
    /\ eng_ready = FALSE
    /\ last = [op |-> "init"]

\* The rule object of a call: one the caller holds already (from get_rule),
\* or one it builds now out of C, which takes the next place of the heap.
Args(h, C) ==
    {[h |-> h, o |-> o] : o \in 1..Len(h)}
    \cup {[h |-> Append(h, c), o |-> Len(h) + 1] : c \in C}

\* The heap after a call on the object o of heap h: an object that the caller
\* built for the call and that the database did not take is garbage.
Retain(old, h, vh, o) ==
    IF o <= Len(old) \/ (\E rid \in DOMAIN vh : o \in Range(vh[rid]))
    THEN h
    ELSE old

\* The state after construction together with the arguments of the one call
\* that a behaviour makes: `last` holds them until the call is made.
InitDrawing(DiskChoices, Inputs) ==
    /\ \E files \in DiskChoices :
          /\ disk = {JsonFile(d) : d \in files}
          /\ heap = LoadedHeap({JsonFile(d) : d \in files})
    /\ rules = LoadedRules(heap)
    /\ version_history = <<>>
    /\ latest_versions = <<>>
    /\ rule_index = EmptyIndex
    /\ initialized = FALSE
    /\ now = 0
    /\ eng_rules = <<>>
    /\ eng_index = [tags |-> <<>>, languages |-> <<>>, domains |-> <<>>]
    /\ eng_ready = FALSE
    /\ \E x \in Inputs : last = [op |-> "input", input |-> x]

\* RuleDatabase.initialize
Initialize ==
    /\ ~initialized
    /\ rule_index' = _build_indexes(heap, rules)
    /\ initialized' = TRUE
    /\ last' = [op |-> "initialize"]
    /\ UNCHANGED <<heap, version_history, latest_versions, rules, disk, now,
                   eng_rules, eng_index, eng_ready>>

\* RuleDatabase.add_rule(rule, file_path)
AddRuleOf(C, FilePaths, MaxHeap) ==
    \E a \in Args(heap, C), file_path \in FilePaths :
        LET r == add_rule(a.h, version_history, latest_versions, rules,
                          rule_index, disk, a.o, file_path)
        IN  /\ Len(Retain(heap, a.h, r.vh, a.o)) <= MaxHeap
            /\ heap' = Retain(heap, a.h, r.vh, a.o)
            /\ version_history' = r.vh
            /\ latest_versions' = r.lv
            /\ rules' = r.rl
            /\ rule_index' = r.idx
            /\ disk' = r.dk
            /\ last' = [op |-> "add", arg |-> a.o, ret |-> r.ret, rule |-> a.h[a.o]]
            /\ UNCHANGED <<initialized, now, eng_rules, eng_index, eng_ready>>

\* RuleDatabase.update_rule(rule)
UpdateRuleOf(C, MaxHeap) ==
    \E a \in Args(heap, C) :
        LET h2 == [a.h EXCEPT ![a.o] = update_rule_object(latest_versions, @, now)]
            r == add_rule(h2, version_history, latest_versions, rules,
                          rule_index, disk, a.o, FALSE)
        IN  /\ Len(Retain(heap, h2, r.vh, a.o)) <= MaxHeap
            /\ heap' = Retain(heap, h2, r.vh, a.o)
            /\ version_history' = r.vh
            /\ latest_versions' = r.lv
            /\ rules' = r.rl
            /\ rule_index' = r.idx
            /\ disk' = r.dk
            /\ last' = [op |-> "update", arg |-> a.o, ret |-> r.ret, rule |-> h2[a.o]]
            /\ UNCHANGED <<initialized, now, eng_rules, eng_index, eng_ready>>

\* The wall clock advances (a step of the behaviours in which update_rule
\* reads the time of day).
Tick ==
    /\ now < MaxClock
    /\ now' = now + 1
    /\ last' = [op |-> "tick"]
    /\ UNCHANGED <<heap, version_history, latest_versions, rules, rule_index,
                   initialized, disk, eng_rules, eng_index, eng_ready>>

\* RuleEngine.initialize: the database is initialized, the rules are loaded
\* and indexed.
EngineInitialize ==
    /\ ~eng_ready
    /\ rule_index' = IF initialized THEN rule_index ELSE _build_indexes(heap, rules)
    /\ initialized' = TRUE
    /\ \E er \in EngineLoads(disk) :
          /\ eng_rules' = er
          /\ eng_index' = build_indexes(er)
    /\ eng_ready' = TRUE
    /\ last' = [op |-> "engine_initialize"]
    /\ UNCHANGED <<heap, version_history, latest_versions, rules, disk, now>>

\* RuleEngine.reload
EngineReload ==
    /\ eng_ready
    /\ \E er \in EngineLoads(disk) :
          /\ eng_rules' = er
          /\ eng_index' = build_indexes(er)
    /\ last' = [op |-> "engine_reload"]
    /\ UNCHANGED <<heap, version_history, latest_versions, rules, rule_index,
                   initialized, disk, now, eng_ready>>

\* RuleEngine.search_rules(search_filter)
EngineSearch ==
    /\ \E f \in Filters :
        \E q \in Orders(EngineCandidates(eng_rules, eng_index, f)) :
            last' = [op |-> "engine_search", filter |-> f,
                     result |-> search_rules(eng_rules, f, q)]
    /\ UNCHANGED <<heap, version_history, latest_versions, rules, rule_index,
                   initialized, disk, now, eng_rules, eng_index, eng_ready>>

\* RuleDatabase.search_rules(query, languages, domains, rule_types, tags, limit).
\* The order of the results is that of a dict or set iteration, of which
\* the model keeps no record: every order is allowed.
DbSearch ==
    /\ \E f \in Filters :
        \E q \in Orders(DbMatches(heap, rules, rule_index, f)) :
            last' = [op |-> "db_search", filter |-> f,
                     result |-> Truncate(q, f.limit)]
    /\ UNCHANGED <<heap, version_history, latest_versions, rules, rule_index,
                   initialized, disk, now, eng_rules, eng_index, eng_ready>>

Init == InitOf(SUBSET DiskRules)

AddRule == AddRuleOf(Catalog, {FALSE}, MaxHeld)

UpdateRule == UpdateRuleOf(Catalog, MaxHeld)

Next == Initialize \/ AddRule \/ UpdateRule

Spec == Init /\ [][Next]_vars

\* Registrations of well-formed versions only.
VersionCatalog ==
    {CursorRule(MkRule("CR-1", v, {}, TRUE)) : v \in {V100, V110, V120, V1100}}
    \cup {CursorRule(MkRule("CR-2", V100, {}, TRUE))}

InitRegister == InitOf({{}})

RegisterRule == AddRuleOf(VersionCatalog, {FALSE}, MaxObjs)

NextRegister == Initialize \/ RegisterRule

SpecRegister == InitRegister /\ [][NextRegister]_vars

\* The search engine on a data directory that holds up to three rule
\* files at start-up and to which add_rule saves one more.
SearchDiskRules ==
    {MkRule("CR-1", V100, {}, TRUE), MkRule("CR-2", V100, {}, TRUE),
     MkRule("CR-3", V100, {}, FALSE)}

SearchCatalog == {CursorRule(MkRule("CR-1", V110, {}, FALSE))}

InitSearch == InitOf(SUBSET SearchDiskRules)

AddAndSave == AddRuleOf(SearchCatalog, {TRUE}, MaxSearchObjs)

NextSearch ==
    \/ Initialize
    \/ AddAndSave
    \/ EngineInitialize
    \/ EngineReload
    \/ EngineSearch
    \/ DbSearch

SpecSearch == InitSearch /\ [][NextSearch]_vars

-----------------------------------------------------------------------------
(* Properties                                                              *)

\* The versions the history holds for rule_id
HistoryVersions(rid) ==
    IF rid \in DOMAIN version_history
    THEN {heap[o].version : o \in Range(version_history[rid])}
    ELSE {}

\* All the rule ids some bucket of the database index holds
Indexed ==
    UNION {UNION {rule_index[d][k] : k \in DOMAIN rule_index[d]} :
              d \in {"languages", "domains", "types", "tags"}}

EngineIndexed ==
    UNION {UNION {eng_index[d][k] : k \in DOMAIN eng_index[d]} :
              d \in {"languages", "domains", "tags"}}

\* C1 (second half): in every reachable state the version strings stored
\* in the version history of one identifier are pairwise distinct.
C1_VersionsPairwiseDistinct ==
    \A rid \in DOMAIN version_history :
        \A i, j \in 1..Len(version_history[rid]) :
            i # j => heap[version_history[rid][i]].version
                     # heap[version_history[rid][j]].version

\* C1 (first half): a registration of a (rule_id, version) pair that the
\* history holds already returns failure and leaves the history and the
\* latest pointers as they were.
C1_DuplicateRejected ==
    [][(last'.op = "add" /\ last'.rule.version \in HistoryVersions(last'.rule.rule_id))
          => /\ last'.ret = "false"
             /\ version_history' = version_history
             /\ latest_versions' = latest_versions]_vars

\* a < b for versions major.minor.micro, component by component
SemverLess(a, b) ==
    \/ Major(a) < Major(b)
    \/ Major(a) = Major(b) /\ Minor(a) < Minor(b)
    \/ Major(a) = Major(b) /\ Minor(a) = Minor(b) /\ Micro(a) < Micro(b)

\* C2: after registrations of distinct well-formed versions of one
\* identifier, in any order, latest(identifier) is a rule of the history
\* and no version of the history is a greater semantic version than its own.
C2_LatestIsSemverMax ==
    \A rid \in DOMAIN version_history :
        LET l == get_latest_rule(heap, version_history, latest_versions, rid)
        IN  /\ l # 0
            /\ heap[l].version = latest_versions[rid]
            /\ \A o \in Range(version_history[rid]) :
                   ~SemverLess(heap[l].version, heap[o].version)

\* 1.0.0, 1.2.0 and 1.1.0 were registered in that order, and 1.2.0 is latest.
C2_Witness ==
    /\ Len(heap) = 3
    /\ \A o \in 1..3 : heap[o].rule_id = "CR-1"
    /\ heap[1].version = V100 /\ heap[2].version = V120 /\ heap[3].version = V110
    /\ "CR-1" \in DOMAIN version_history
    /\ Len(version_history["CR-1"]) = 3
    /\ get_latest_rule(heap, version_history, latest_versions, "CR-1") = 2

\* C3 as stated: an add of a candidate whose conflicts_with names a rule of
\* the live rule map fails, and afterwards the candidate's rule_id is in
\* neither the live rule map nor an index bucket.
C3_ConflictingCandidateAbsent ==
    [][(last'.op = "add" /\ last'.rule.conflicts_with \cap DOMAIN rules # {})
          => /\ last'.ret = "false"
             /\ last'.rule.rule_id \notin DOMAIN rules'
             /\ last'.rule.rule_id \notin Indexed']_vars

\* C3 as amended: an add (or the add of an update) of a candidate whose
\* conflicts_with names another rule of the live rule map fails and leaves
\* the live rule map, the index and the version history as they were.
C3_ConflictingAddRejected ==
    [][(/\ last'.op \in {"add", "update"}
        /\ (last'.rule.conflicts_with \ {last'.rule.rule_id}) \cap DOMAIN rules # {})
          => /\ last'.ret = "false"
             /\ rules' = rules
             /\ rule_index' = rule_index
             /\ version_history' = version_history
             /\ latest_versions' = latest_versions]_vars

\* An add was refused for a declared conflict with another live rule while
\* an earlier version of the candidate's identifier is live and indexed.
C3_Witness ==
    /\ last.op = "add"
    /\ last.ret = "false"
    /\ (last.rule.conflicts_with \ {last.rule.rule_id}) \cap DOMAIN rules # {}
    /\ last.rule.rule_id \in DOMAIN rules
    /\ last.rule.rule_id \in Indexed

\* C4: the version history is append-only: no step changes a rule object
\* that the history holds, or drops it from the history.
C4_HistoryAppendOnly ==
    [][\A rid \in DOMAIN version_history :
          \A o \in Range(version_history[rid]) :
              /\ heap'[o] = heap[o]
              /\ rid \in DOMAIN version_history'
              /\ o \in Range(version_history'[rid])]_vars

\* C5: an update that succeeds for an identifier which the database holds
\* (in the live rule map or in the history) stores a version that differs
\* from every version held before, is greater than the previous latest, and
\* is what latest(identifier) returns afterwards.
C5_UpdateMintsNewVersion ==
    [][(/\ last'.op = "update"
        /\ last'.ret = "true"
        /\ last'.rule.rule_id \in DOMAIN rules \cup DOMAIN version_history)
          => LET rid == last'.rule.rule_id
                 held == HistoryVersions(rid)
                         \cup (IF rid \in DOMAIN rules
                               THEN {heap[rules[rid]].version} ELSE {})
             IN  /\ last'.rule.version \notin held
                 /\ rid \in DOMAIN latest_versions
                        => IsNewerVersion(last'.rule.version, latest_versions[rid])
                 /\ get_latest_rule(heap', version_history', latest_versions', rid)
                        = last'.arg]_vars

\* C6: a rule whose active flag is false is in no index bucket and in no
\* search result, and the lookup by identifier and version finds it.
C6_InactiveNotVisible ==
    /\ \A rid \in Indexed \cap DOMAIN rules : heap[rules[rid]].active
    /\ \A rid \in EngineIndexed \cap DOMAIN eng_rules : eng_rules[rid].active
    /\ last.op = "engine_search"
          => \A i \in 1..Len(last.result) : eng_rules[last.result[i].rule_id].active
    /\ last.op = "db_search"
          => \A i \in 1..Len(last.result) : heap[rules[last.result[i]]].active
    /\ \A o \in 1..Len(heap) :
          ~heap[o].active
              => get_rule(heap, version_history, rules, heap[o].rule_id,
                          heap[o].version) = o

\* C7: the four index maps are the inverse of the live rule map.
C7_IndexIsInverse ==
    \A rid \in RuleIds :
        /\ \A l \in {"python", "cpp"} :
              (rid \in Bucket(rule_index.languages, l))
                  <=> (rid \in DOMAIN rules /\ l \in heap[rules[rid]].languages)
        /\ \A d \in {"web"} :
              (rid \in Bucket(rule_index.domains, d))
                  <=> (rid \in DOMAIN rules /\ d \in heap[rules[rid]].domains)
        /\ \A t \in {"style", "content"} :
              (rid \in Bucket(rule_index.types, t))
                  <=> (rid \in DOMAIN rules /\ heap[rules[rid]].rule_type = t)
        /\ \A g \in {<<"l">>, <<"d">>} :
              (rid \in Bucket(rule_index.tags, g))
                  <=> (rid \in DOMAIN rules /\ g \in Range(heap[rules[rid]].tags))

\* C8: every rule a search returns has a value in common with every
\* dimension the filter gives.
C8_ResultsMatchFilter ==
    last.op = "engine_search"
        => \A i \in 1..Len(last.result) :
              LET r == eng_rules[last.result[i].rule_id]
                  f == last.filter
              IN  /\ f.languages # {} => f.languages \cap r.languages # {}
                  /\ f.domains # {} => f.domains \cap r.domains # {}
                  /\ f.tags # {} => f.tags \cap Range(r.tags) # {}
                  /\ f.content_types # {} => f.content_types \cap r.content_types # {}
                  /\ f.rule_types # {} => r.rule_type \in f.rule_types

Min(a, b) == IF a < b THEN a ELSE b

EmptyFilter(f) ==
    /\ f.query = <<>> /\ f.languages = {} /\ f.domains = {} /\ f.tags = {}
    /\ f.content_types = {} /\ f.rule_types = {}

\* C9: a search returns at most `limit` rules, and with an empty filter
\* min(limit, number of active rules) of them.
C9_SearchBounded ==
    /\ last.op = "engine_search"
          => /\ Len(last.result) <= last.filter.limit
             /\ EmptyFilter(last.filter)
                   => Len(last.result)
                      = Min(last.filter.limit,
                            Cardinality({rid \in DOMAIN eng_rules : eng_rules[rid].active}))
    /\ last.op = "db_search"
          => /\ Len(last.result) <= last.filter.limit
             /\ EmptyFilter(last.filter)
                   => Len(last.result)
                      = Min(last.filter.limit,
                            Cardinality({rid \in DOMAIN rules : heap[rules[rid]].active}))

\* The score of C10, in thousandths and times the number L of conditions and
\* the unit of the success rate: the weighted sum times 0.5 + 0.5 x rate.
C10_Score(r, f) ==
    LET L == IF r.rules = <<>> THEN 1 ELSE Len(r.rules)
        hit(s) == f.query # <<>> /\ Contains(Lower(s), Lower(f.query))
        sum == 100 * SumPriority(r.rules)
               + L * ((IF hit(r.name) THEN 3000 ELSE 0)
                      + (IF hit(r.description) THEN 2000 ELSE 0)
                      + 1500 * Cardinality({i \in 1..Len(r.rules) : hit(r.rules[i].guideline)})
                      + 2000 * Cardinality(Range(r.tags) \cap f.tags)
                      + 1500 * Cardinality(r.languages \cap f.languages)
                      + 1500 * Cardinality(r.domains \cap f.domains)
                      + 1000 * Cardinality({c \in r.content_types : c \in f.content_types}))
    IN  [num |-> sum * (SuccessRateUnit + r.success_rate),
         den |-> 1000 * L * 2 * SuccessRateUnit]

\* C10: the results are in the order of non-increasing score, each with the
\* score of the claim, and no rule that passes the filter and was cut off
\* has a greater score than a returned one.
C10_RankedTopK ==
    last.op = "engine_search"
        => LET f == last.filter
               res == last.result
               returned == {res[i].rule_id : i \in 1..Len(res)}
               passing == {rid \in DOMAIN eng_rules :
                              /\ f.languages # {} => f.languages \cap eng_rules[rid].languages # {}
                              /\ f.domains # {} => f.domains \cap eng_rules[rid].domains # {}
                              /\ f.tags # {} => f.tags \cap Range(eng_rules[rid].tags) # {}}
           IN  /\ \A i \in 1..Len(res) :
                     /\ res[i].rule_id \in passing
                     /\ res[i].score.num * C10_Score(eng_rules[res[i].rule_id], f).den
                        = C10_Score(eng_rules[res[i].rule_id], f).num * res[i].score.den
               /\ \A i, j \in 1..Len(res) :
                     i < j => /\ ~ScoreGreater(res[j].score, res[i].score)
                              /\ res[i].rule_id # res[j].rule_id
               /\ Len(res) = Min(f.limit, Cardinality(passing))
               /\ \A rid \in passing \ returned :
                     \A i \in 1..Len(res) :
                         ~ScoreGreater(C10_Score(eng_rules[rid], f), res[i].score)

\* A search for a language was cut to one rule, and a rule of a smaller
\* score was left out.
C10_Witness ==
    /\ last.op = "engine_search"
    /\ last.filter.limit = 1
    /\ last.filter.languages # {}
    /\ Len(last.result) = 1
    /\ \E rid \in DOMAIN eng_rules :
          /\ rid # last.result[1].rule_id
          /\ last.filter.languages \cap eng_rules[rid].languages # {}
          /\ ScoreGreater(last.result[1].score,
                          _calculate_rule_score(eng_rules[rid], last.filter))

-----------------------------------------------------------------------------
(* Rule import (rule_import.py).                                           *)
(*                                                                         *)
(* A document, as yaml.safe_load or json.load returns it, is a tagged      *)
(* value: t is the Python type and v the content.  The content of a str    *)
(* is its sequence of characters, that of a list its items, that of a      *)
(* dict its <<key, value>> pairs in insertion order.  A word of Chinese    *)
(* text is one character of the model.                                     *)

None == [t |-> "none", v |-> <<>>]
Str(s) == [t |-> "str", v |-> s]
Number(n) == [t |-> "int", v |-> n]
Bool(b) == [t |-> "bool", v |-> b]
List(items) == [t |-> "list", v |-> items]
Dict(pairs) == [t |-> "dict", v |-> pairs]

\* `not data`
Falsy(data) ==
    CASE data.t = "none" -> TRUE
      [] data.t = "int" -> data.v = 0
      [] data.t = "bool" -> ~data.v
      [] OTHER -> data.v = <<>>

\* `key in d`, d[key] and d.get(key, default) of a dict d
Has(d, key) == \E i \in 1..Len(d.v) : d.v[i][1] = key

Get(d, key) == d.v[CHOOSE i \in 1..Len(d.v) : d.v[i][1] = key][2]

GetOr(d, key, default) == IF Has(d, key) THEN Get(d, key) ELSE default

\* ''.join(s): the Python string of a sequence of characters
RECURSIVE Join(_)
Join(s) == IF s = <<>> THEN "" ELSE Head(s) \o Join(Tail(s))

\* What a call yields: the exception it raises (exc, with the reason why),
\* or, with exc = "", the rules it returns.
Raise(exc, why) == [exc |-> exc, why |-> why, rules |-> <<>>]

Return(rl) == [exc |-> "", why |-> "", rules |-> rl]

\* truncation_markers of YamlRuleParser.parse
truncation_markers ==
    {<<"[", ".", ".", ".", " ", "REST", " ", ".", ".", ".", "]">>,
     <<"[", ".", ".", ".", "REST", ".", ".", ".", "]">>,
     <<"[", ".", ".", ".", " ", "OMITTED_FOR_BREVITY", " ", ".", ".", ".", "]">>,
     <<"[", ".", ".", ".", "OMITTED_FOR_BREVITY", ".", ".", ".", "]">>,
     <<"[", ".", ".", ".", "OMITTED", ".", ".", ".", "]">>,
     <<"[", "OMITTED", "]">>,
     <<"[", ".", ".", ".", "]">>}

\* check_truncation(text)
check_truncation(text) ==
    /\ text.t = "str"
    /\ \E marker \in truncation_markers : Contains(text.v, marker)

\* find_truncation_in_dict(d), d a dict: whether a location is returned.
\* An item of a list that is itself a list goes to check_truncation, which
\* answers False for whatever is not a str.
RECURSIVE find_truncation_in_dict(_)
find_truncation_in_dict(d) ==
    \E i \in 1..Len(d.v) :
        LET value == d.v[i][2]
        IN  CASE value.t = "str" -> check_truncation(value)
              [] value.t = "list" ->
                    \E j \in 1..Len(value.v) :
                        IF value.v[j].t = "dict"
                        THEN find_truncation_in_dict(value.v[j])
                        ELSE check_truncation(value.v[j])
              [] value.t = "dict" -> find_truncation_in_dict(value)
              [] OTHER -> FALSE

\* The members of the enumerations of models.py
RuleType == {"STYLE", "CONTENT", "SEMANTIC", "FORMAT", "PERFORMANCE", "SECURITY"}

ContentType ==
    {"CODE", "DOCUMENTATION", "DATA_INTERFACE", "DATA", "ALGORITHM",
     "CONFIGURATION"}

TaskType ==
    {"DATA_ANALYSIS", "VISUALIZATION", "GUI_DEVELOPMENT", "HTTP_SERVICE",
     "LLM_MCP", "NUMERICAL_COMPUTATION", "PAPER_WRITING", "GRANT_APPLICATION",
     "SOFTWARE_DESIGN", "CODE_GENERATION", "TESTING", "DOCUMENTATION",
     "REFACTORING", "DEBUGGING", "OPTIMIZATION", "CODE_REVIEW"}

\* The value of a member: its name in lower case
EnumValue(member) ==
    CASE member = "STYLE" -> "style"
      [] member = "CONTENT" -> "content"
      [] member = "SEMANTIC" -> "semantic"
      [] member = "FORMAT" -> "format"
      [] member = "PERFORMANCE" -> "performance"
      [] member = "SECURITY" -> "security"
      [] member = "CODE" -> "code"
      [] member = "DOCUMENTATION" -> "documentation"
      [] member = "DATA_INTERFACE" -> "data_interface"
      [] member = "DATA" -> "data"
      [] member = "ALGORITHM" -> "algorithm"
      [] member = "CONFIGURATION" -> "configuration"
      [] OTHER -> member

\* The type_mapping dict literals of the three converters: <<key, member>>
\* in the order written.  Building the dict evaluates EnumClass.MEMBER for
\* every entry.
rule_type_mapping ==
    <<<<"style", "STYLE">>, <<"content", "CONTENT">>, <<"format", "FORMAT">>,
      <<"performance", "PERFORMANCE">>, <<"security", "SECURITY">>>>

task_type_mapping ==
    <<<<"data_analysis", "DATA_ANALYSIS">>, <<"visualization", "VISUALIZATION">>,
      <<"gui_development", "GUI_DEVELOPMENT">>, <<"http_service", "HTTP_SERVICE">>,
      <<"llm_mcp", "LLM_MCP">>,
      <<"numerical_computation", "NUMERICAL_COMPUTATION">>,
      <<"paper_writing", "PAPER_WRITING">>,
      <<"grant_application", "GRANT_APPLICATION">>,
      <<"software_design", "SOFTWARE_DESIGN">>,
      <<"code_generation", "CODE_GENERATION">>, <<"testing", "TESTING">>,
      <<"documentation", "DOCUMENTATION">>, <<"refactoring", "REFACTORING">>,
      <<"debugging", "DEBUGGING">>, <<"optimization", "OPTIMIZATION">>,
      <<"code_review", "CODE_REVIEW">>,
      <<"academic_writing", "ACADEMIC_WRITING">>,
      <<"academic_papers", "ACADEMIC_WRITING">>,
      <<"technical_reports", "TECHNICAL_REPORTS">>,
      <<"project_proposals", "PROJECT_PROPOSALS">>,
      <<"peer_review", "PEER_REVIEW">>, <<"review_guidelines", "PEER_REVIEW">>,
      <<"translation_services", "TRANSLATION_SERVICES">>,
      <<"translation", "TRANSLATION_SERVICES">>,
      <<"review_response", "REVIEW_RESPONSE">>,
      <<"scientific_writing", "SCIENTIFIC_WRITING">>,
      <<"scientific_computing", "SCIENTIFIC_COMPUTING">>,
      <<"hpc_computing", "HPC_COMPUTING">>,
      <<"machine_learning", "MACHINE_LEARNING">>,
      <<"database_storage", "DATABASE_STORAGE">>,
      <<"mcp_services", "MCP_SERVICES">>,
      <<"research_methodology", "RESEARCH_METHODOLOGY">>,
      <<"experimental_design", "EXPERIMENTAL_DESIGN">>,
      <<"statistical_analysis", "STATISTICAL_ANALYSIS">>,
      <<"data_validation", "DATA_VALIDATION">>>>

content_type_mapping ==
    <<<<"code", "CODE">>, <<"documentation", "DOCUMENTATION">>,
      <<"data", "DATA">>, <<"algorithm", "ALGORITHM">>,
      <<"configuration", "CONFIGURATION">>,
      <<"data_interface", "DATA_INTERFACE">>,
      <<"academic_paper", "ACADEMIC_PAPER">>,
      <<"academic_papers", "ACADEMIC_PAPER">>,
      <<"technical_report", "TECHNICAL_REPORT">>,
      <<"technical_reports", "TECHNICAL_REPORT">>,
      <<"project_proposal", "PROJECT_PROPOSAL">>,
      <<"project_proposals", "PROJECT_PROPOSAL">>,
      <<"review_document", "REVIEW_DOCUMENT">>,
      <<"review_guidelines", "REVIEW_DOCUMENT">>,
      <<"peer_review", "REVIEW_DOCUMENT">>,
      <<"translation", "TRANSLATION">>,
      <<"translation_services", "TRANSLATION">>,
      <<"scientific_manuscript", "SCIENTIFIC_MANUSCRIPT">>,
      <<"scientific_writing", "SCIENTIFIC_MANUSCRIPT">>,
      <<"atmospheric_data", "ATMOSPHERIC_DATA">>,
      <<"atmospheric_science", "ATMOSPHERIC_DATA">>,
      <<"ionospheric_model", "IONOSPHERIC_MODEL">>,
      <<"ionospheric_physics", "IONOSPHERIC_MODEL">>,
      <<"geodetic_computation", "GEODETIC_COMPUTATION">>,
      <<"geodesy_surveying", "GEODETIC_COMPUTATION">>,
      <<"oceanographic_analysis", "OCEANOGRAPHIC_ANALYSIS">>,
      <<"oceanography", "OCEANOGRAPHIC_ANALYSIS">>,
      <<"geophysical_model", "GEOPHYSICAL_MODEL">>,
      <<"geophysics", "GEOPHYSICAL_MODEL">>,
      <<"climate_model", "CLIMATE_MODEL">>,
      <<"climate_science", "CLIMATE_MODEL">>,
      <<"space_science_data", "SPACE_SCIENCE_DATA">>,
      <<"space_science", "SPACE_SCIENCE_DATA">>,
      <<"statistical_model", "STATISTICAL_MODEL">>,
      <<"statistical_analysis", "STATISTICAL_MODEL">>,
      <<"experimental_protocol", "EXPERIMENTAL_PROTOCOL">>,
      <<"experimental_design", "EXPERIMENTAL_PROTOCOL">>,
      <<"validation_framework", "VALIDATION_FRAMEWORK">>,
      <<"data_validation", "VALIDATION_FRAMEWORK">>>>

\* EnumClass.MEMBER raises AttributeError for a name the class does not
\* define: whether building the dict literal raises.
MappingRaises(mapping, members) ==
    \E i \in 1..Len(mapping) : mapping[i][2] \notin members

\* type_mapping.get(key): the member of the last entry written for the key,
\* or "" for None
MappingGet(mapping, key) ==
    IF \E i \in 1..Len(mapping) : mapping[i][1] = key
    THEN mapping[CHOOSE i \in 1..Len(mapping) :
                    /\ mapping[i][1] = key
                    /\ \A j \in (i + 1)..Len(mapping) : mapping[j][1] # key][2]
    ELSE ""

\* The loop of _convert_task_types and _convert_content_types: the members
\* the items map to, in order, each once.
RECURSIVE MappedTypes(_, _, _)
MappedTypes(mapping, items, result) ==
    IF items = <<>> THEN result
    ELSE LET mapped_type == MappingGet(mapping, Join(Lower(Head(items).v)))
         IN  MappedTypes(mapping, Tail(items),
                 IF mapped_type # "" /\ mapped_type \notin Range(result)
                 THEN Append(result, mapped_type)
                 ELSE result)

\* _convert_rule_type(rule_type): the value of the member
_convert_rule_type(rule_type) ==
    IF MappingRaises(rule_type_mapping, RuleType)
    THEN [exc |-> "AttributeError", value |-> ""]
    ELSE LET m == MappingGet(rule_type_mapping, Join(Lower(rule_type.v)))
         IN  [exc |-> "", value |-> EnumValue(IF m = "" THEN "CONTENT" ELSE m)]

\* _convert_task_types(task_types): the values of the members
_convert_task_types(task_types) ==
    IF MappingRaises(task_type_mapping, TaskType)
    THEN [exc |-> "AttributeError", value |-> <<>>]
    ELSE LET result == MappedTypes(task_type_mapping, task_types.v, <<>>)
         IN  [exc |-> "",
              value |-> IF result = <<>> THEN <<"software_design">>
                        ELSE [i \in 1..Len(result) |-> EnumValue(result[i])]]

\* _convert_content_types(content_types): the values of the members
_convert_content_types(content_types) ==
    IF MappingRaises(content_type_mapping, ContentType)
    THEN [exc |-> "AttributeError", value |-> <<>>]
    ELSE LET result == MappedTypes(content_type_mapping, content_types.v, <<>>)
         IN  [exc |-> "",
              value |-> IF result = <<>> THEN <<"code">>
                        ELSE [i \in 1..Len(result) |-> EnumValue(result[i])]]

\* RuleCondition(**rule_item): whether the validation passes
RuleConditionValid(rule_item) ==
    /\ rule_item.t = "dict"
    /\ Has(rule_item, "condition")
    /\ Has(rule_item, "guideline")
    /\ Has(rule_item, "priority") =>
          /\ Get(rule_item, "priority").t = "int"
          /\ Get(rule_item, "priority").v \in 1..10

RuleCondition(rule_item) ==
    Cond(Get(rule_item, "condition").v, Get(rule_item, "guideline").v,
         GetOr(rule_item, "priority", Number(5)).v)

\* validate_rule_id: v.startswith('CR-')
validate_rule_id(v) == Len(v) >= 3 /\ SubSeq(v, 1, 3) = <<"C", "R", "-">>

\* [str(x) for x in a list of strings], as a set
StrSet(list) == {Join(list.v[i].v) : i \in 1..Len(list.v)}

\* YamlRuleParser._create_rule_from_yaml(data, file_path) at time t
_create_rule_from_yaml(data, t) ==
    LET simplified == /\ ~Has(data, "rules")
                      /\ (Has(data, "guideline") \/ Has(data, "condition"))
        rule_condition ==
            Dict(<<<<"condition", GetOr(data, "condition", Str(<<"main_rule">>))>>,
                   <<"guideline", GetOr(data, "guideline", Str(<<>>))>>,
                   <<"priority", GetOr(data, "priority", Number(8))>>>>)
        items == IF simplified THEN <<rule_condition>> ELSE Get(data, "rules").v
        rule_type == _convert_rule_type(GetOr(data, "rule_type", Str(<<"content">>)))
        task_types == _convert_task_types(GetOr(data, "task_types", List(<<>>)))
        content_types ==
            _convert_content_types(GetOr(data, "content_types", List(<<Str(<<"code">>)>>)))
        validation_data == GetOr(data, "validation", Dict(<<>>))
        tags == GetOr(data, "tags", List(<<>>)).v
    IN  IF data.t \notin {"dict", "list", "str"}
        THEN Raise("TypeError", "not iterable")
        ELSE IF data.t # "dict" \/ ~Has(data, "rule_id")
        THEN Raise("ValueError", "rule_id")
        ELSE IF ~Has(data, "name") THEN Raise("ValueError", "name")
        ELSE IF rule_type.exc # "" THEN Raise(rule_type.exc, "_convert_rule_type")
        ELSE IF task_types.exc # "" THEN Raise(task_types.exc, "_convert_task_types")
        ELSE IF content_types.exc # ""
        THEN Raise(content_types.exc, "_convert_content_types")
        ELSE IF ~simplified /\ ~Has(data, "rules") THEN Raise("KeyError", "rules")
        ELSE IF \E i \in 1..Len(items) : ~RuleConditionValid(items[i])
        THEN Raise("ValidationError", "RuleCondition")
        ELSE IF ~Has(data, "description") \/ ~validate_rule_id(Get(data, "rule_id").v)
        THEN Raise("ValidationError", "CursorRule")
        ELSE Return(<<CursorRule(
                [rule_id |-> Join(Get(data, "rule_id").v),
                 version |-> GetOr(data, "version", Str(V100)).v,
                 updated_at |-> t,
                 conflicts_with |-> StrSet(GetOr(data, "conflicts_with", List(<<>>))),
                 active |-> GetOr(data, "active", Bool(TRUE)).v,
                 overrides |-> StrSet(GetOr(data, "overrides", List(<<>>))),
                 name |-> Get(data, "name").v,
                 description |-> Get(data, "description").v,
                 rule_type |-> rule_type.value,
                 languages |-> StrSet(GetOr(data, "languages", List(<<>>))),
                 domains |-> StrSet(GetOr(data, "domains", List(<<>>))),
                 content_types |-> Range(content_types.value),
                 tags |-> [i \in 1..Len(tags) |-> tags[i].v],
                 rules |-> [i \in 1..Len(items) |-> RuleCondition(items[i])],
                 validation |->
                    [tools |-> StrSet(GetOr(validation_data, "tools", List(<<>>))),
                     severity |->
                        IF Has(validation_data, "severity")
                           /\ Join(Lower(Get(validation_data, "severity").v))
                              \in {"error", "warning", "info"}
                        THEN Join(Lower(Get(validation_data, "severity").v))
                        ELSE "warning"],
                 success_rate |-> GetOr(data, "success_rate", Number(0)).v])>>)

\* [self._create_rule_from_yaml(item, file_path) for item in items]: the
\* first exception ends the loop.
RECURSIVE CreateEach(_, _)
CreateEach(items, t) ==
    IF items = <<>> THEN Return(<<>>)
    ELSE LET r == _create_rule_from_yaml(Head(items), t)
             rest == CreateEach(Tail(items), t)
         IN  IF r.exc # "" THEN r
             ELSE IF rest.exc # "" THEN rest
             ELSE Return(r.rules \o rest.rules)

\* YamlRuleParser.parse(file_path) on a file whose content loads as data.
\* find_truncation_in_dict is called on data whatever its type, and
\* d.items() raises AttributeError for what is not a dict.
YamlRuleParser_parse(data, t) ==
    IF Falsy(data) THEN Raise("ValueError", "empty")
    ELSE IF data.t # "dict" THEN Raise("AttributeError", "find_truncation_in_dict")
    ELSE IF find_truncation_in_dict(data) THEN Raise("ValueError", "truncation")
    ELSE IF data.t = "dict" THEN _create_rule_from_yaml(data, t)
    ELSE IF data.t = "list" THEN CreateEach(data.v, t)
    ELSE Raise("ValueError", "format")

IsDict(x) == x.t = "dict"

\* JsonRuleParser.parse(file_path): the items of a list that are not dicts
\* are passed over.
JsonRuleParser_parse(data, t) ==
    IF Falsy(data) THEN Raise("ValueError", "empty")
    ELSE IF data.t = "dict" THEN _create_rule_from_yaml(data, t)
    ELSE IF data.t = "list" THEN CreateEach(SelectSeq(data.v, IsDict), t)
    ELSE Raise("ValueError", "format")

-----------------------------------------------------------------------------
(* MarkdownRuleParser (rule_import.py): the segmentation of a long body.   *)
(* The lengths of the code (max_length = 2000, the threshold of 5000       *)
(* characters) are scaled down; "\n" is the line break.                    *)

\* max_length of _split_content_intelligently
SegmentCap == 3

\* The length above which _build_rule_data segments the body
LongBody == 7

\* Longest body of the model
MaxBody == 8

\* s.split(sep), sep not empty
RECURSIVE Split(_, _, _)
Split(s, sep, cur) ==
    IF s = <<>> THEN <<cur>>
    ELSE IF Len(s) >= Len(sep) /\ SubSeq(s, 1, Len(sep)) = sep
    THEN <<cur>> \o Split(SubSeq(s, Len(sep) + 1, Len(s)), sep, <<>>)
    ELSE Split(Tail(s), sep, Append(cur, Head(s)))

\* The first loop of _split_content_intelligently: st holds parts and
\* current_part, i is the index of the section.
RECURSIVE SplitSections(_, _, _, _)
SplitSections(sections, i, st, max_length) ==
    IF sections = <<>> THEN st
    ELSE LET section == IF i > 0 THEN <<"#", "#">> \o Head(sections)
                        ELSE Head(sections)
         IN  SplitSections(Tail(sections), i + 1,
                 IF st.current # <<>> /\ Len(st.current \o section) > max_length
                 THEN [parts |-> Append(st.parts, Strip(st.current)),
                       current |-> section]
                 ELSE [parts |-> st.parts,
                       current |-> IF st.current # <<>>
                                   THEN st.current \o <<"\n">> \o section
                                   ELSE section],
                 max_length)

\* The loop over the paragraphs of a part that is too long
RECURSIVE SplitParagraphs(_, _, _)
SplitParagraphs(paragraphs, st, max_length) ==
    IF paragraphs = <<>> THEN st
    ELSE LET para == Head(paragraphs)
         IN  SplitParagraphs(Tail(paragraphs),
                 IF st.current # <<>> /\ Len(st.current \o para) > max_length
                 THEN [parts |-> Append(st.parts, Strip(st.current)),
                       current |-> para]
                 ELSE [parts |-> st.parts,
                       current |-> IF st.current # <<>>
                                   THEN st.current \o <<"\n", "\n">> \o para
                                   ELSE para],
                 max_length)

\* The second loop: the parts that are too long are split at blank lines
RECURSIVE RefineParts(_, _)
RefineParts(parts, max_length) ==
    IF parts = <<>> THEN <<>>
    ELSE (IF Len(Head(parts)) > max_length
          THEN LET st == SplitParagraphs(Split(Head(parts), <<"\n", "\n">>, <<>>),
                                         [parts |-> <<>>, current |-> <<>>],
                                         max_length)
               IN  IF Strip(st.current) # <<>>
                   THEN Append(st.parts, Strip(st.current))
                   ELSE st.parts
          ELSE <<Head(parts)>>)
         \o RefineParts(Tail(parts), max_length)

\* _split_content_intelligently(content, max_length)
_split_content_intelligently(content, max_length) ==
    LET st == SplitSections(Split(content, <<"\n", "#", "#">>, <<>>), 0,
                            [parts |-> <<>>, current |-> <<>>], max_length)
        parts == IF Strip(st.current) # <<>>
                 THEN Append(st.parts, Strip(st.current))
                 ELSE st.parts
        refined_parts == RefineParts(parts, max_length)
    IN  IF refined_parts # <<>> THEN refined_parts
        ELSE <<SubSeq(content, 1, Min(max_length, Len(content)))
               \o <<"...[TRUNCATED]">>>>

\* A Markdown file as frontmatter.load yields it: the header (post.metadata)
\* and the body (post.content)
Markdown(metadata, content) == [t |-> "md", metadata |-> metadata, content |-> content]

\* The conditions of the parts of a long body (323-331): the i-th part, i
\* from 0, gets the base priority minus i.
RECURSIVE PartConditions(_, _, _, _)
PartConditions(content_parts, i, condition, priority) ==
    IF content_parts = <<>> THEN <<>>
    ELSE <<Dict(<<<<"condition", Str(condition \o <<"_part_">> \o IntToStr(i + 1))>>,
                  <<"guideline", Str(Head(content_parts))>>,
                  <<"priority", Number(priority - i)>>>>)>>
         \o PartConditions(Tail(content_parts), i + 1, condition, priority)

\* The list `rules` of _build_rule_data (261-348).  The content that
\* _parse_markdown_content returns never holds the key main_sections, so
\* the loop over the sections (263-310) is not entered; its guideline is
\* the body, or the header's guideline when the body is blank.
MarkdownConditions(metadata, full_content) ==
    LET condition == GetOr(metadata, "condition", Str(<<"main_rule">>)).v
        priority == GetOr(metadata, "priority", Number(8)).v
    IN  IF Strip(full_content) # <<>> /\ Len(full_content) > LongBody
        THEN PartConditions(_split_content_intelligently(full_content, SegmentCap),
                            0, condition, priority)
        ELSE <<Dict(<<<<"condition", Str(condition)>>,
                      <<"guideline",
                        IF Strip(full_content) # <<>> THEN Str(full_content)
                        ELSE GetOr(metadata, "guideline", Str(<<>>))>>,
                      <<"priority", Number(priority)>>>>)>>

\* _build_rule_data(metadata, content, file_path): the converters are
\* called before the conditions are built.
_build_rule_data(metadata, full_content) ==
    LET rule_type == _convert_rule_type(
                        GetOr(metadata, "rule_type",
                              GetOr(metadata, "type", Str(<<"content">>))))
        task_types == _convert_task_types(GetOr(metadata, "task_types", List(<<>>)))
        content_types ==
            _convert_content_types(
                GetOr(metadata, "content_types", List(<<Str(<<"code">>)>>)))
    IN  IF rule_type.exc # "" THEN Raise(rule_type.exc, "_convert_rule_type")
        ELSE IF task_types.exc # "" THEN Raise(task_types.exc, "_convert_task_types")
        ELSE IF content_types.exc # ""
        THEN Raise(content_types.exc, "_convert_content_types")
        ELSE [exc |-> "", why |-> "",
              rules |-> MarkdownConditions(metadata, full_content),
              rule_type |-> rule_type.value,
              content_types |-> content_types.value]

\* MarkdownRuleParser.parse(file_path) at time t, with _create_cursor_rule
MarkdownRuleParser_parse(post, t) ==
    LET metadata == post.metadata
        rule_data == _build_rule_data(metadata, post.content)
        tags == GetOr(metadata, "tags", List(<<>>)).v
        severity == GetOr(metadata, "severity", Str(<<"w">>)).v
    IN  IF ~Has(metadata, "rule_id") THEN Raise("ValueError", "rule_id")
        ELSE IF ~Has(metadata, "name") THEN Raise("ValueError", "name")
        ELSE IF rule_data.exc # "" THEN rule_data
        ELSE IF \E i \in 1..Len(rule_data.rules) : ~RuleConditionValid(rule_data.rules[i])
        THEN Raise("ValidationError", "RuleCondition")
        ELSE IF ~validate_rule_id(Get(metadata, "rule_id").v)
        THEN Raise("ValidationError", "CursorRule")
        ELSE Return(<<CursorRule(
                [rule_id |-> Join(Get(metadata, "rule_id").v),
                 version |-> GetOr(metadata, "version", Str(V100)).v,
                 updated_at |-> t,
                 conflicts_with |-> StrSet(GetOr(metadata, "conflicts_with", List(<<>>))),
                 active |-> GetOr(metadata, "active", Bool(TRUE)).v,
                 overrides |-> StrSet(GetOr(metadata, "overrides", List(<<>>))),
                 name |-> Get(metadata, "name").v,
                 description |-> GetOr(metadata, "description", Str(<<>>)).v,
                 rule_type |-> rule_data.rule_type,
                 languages |-> StrSet(GetOr(metadata, "languages", List(<<>>))),
                 domains |-> StrSet(GetOr(metadata, "domains", List(<<>>))),
                 content_types |-> Range(rule_data.content_types),
                 tags |-> [i \in 1..Len(tags) |-> tags[i].v],
                 rules |-> [i \in 1..Len(rule_data.rules) |->
                                RuleCondition(rule_data.rules[i])],
                 validation |->
                    [tools |-> StrSet(GetOr(metadata, "validation_tools",
                                            GetOr(metadata, "tools", List(<<>>)))),
                     severity |-> IF Join(Lower(severity)) \in {"error", "warning", "info"}
                                  THEN Join(Lower(severity))
                                  ELSE "warning"],
                 success_rate |-> GetOr(metadata, "success_rate", Number(0)).v])>>)

-----------------------------------------------------------------------------

\* The texts a field of a document may hold: clean ones, each marker alone,
\* a marker inside a longer text, and a bracketed text that is no marker.
Payloads ==
    {<<"a">>, <<"[", ".", ".", "]">>, <<"a", "[", ".", ".", ".", "]", "b">>}
    \cup truncation_markers

RuleIdChars(n) == <<"C", "R", "-", n>>

\* rule_id, name and description of a document
Header(n) ==
    <<<<"rule_id", Str(RuleIdChars(n))>>, <<"name", Str(<<"A">>)>>,
      <<"description", Str(<<"b">>)>>>>

\* A document holding the text s in one place: at the top level
\* ("field"), in a list ("list"), in a nested dict ("dict"), in a dict of a
\* list ("list.dict"), in a list of a list ("list.list"), in a list of a
\* dict of a list ("list.dict.list"), in a dict of a list of a list
\* ("list.list.dict"), in a list of a dict ("dict.list"); a list of such
\* documents ("[field]", "[field,field]"), a bare text ("str"), a document
\* of rule_id, name and guideline only ("minimal") and a document without
\* name ("noname").
Document(shape, s) ==
    LET g == <<"guideline", Str(<<"c">>)>>
        cond(x) == Dict(<<<<"condition", Str(<<"a">>)>>,
                          <<"guideline", Str(<<"b">>)>>, x>>)
        field(n) == Dict(Header(n) \o <<<<"guideline", Str(s)>>>>)
    IN  CASE shape = "field" -> field("1")
          [] shape = "list" -> Dict(Header("1") \o <<g, <<"tags", List(<<Str(s)>>)>>>>)
          [] shape = "dict" ->
                Dict(Header("1") \o <<g, <<"notes", Dict(<<<<"k", Str(s)>>>>)>>>>)
          [] shape = "list.dict" ->
                Dict(Header("1") \o
                     <<<<"rules", List(<<cond(<<"pattern", Str(s)>>)>>)>>>>)
          [] shape = "list.list" ->
                Dict(Header("1") \o <<g, <<"notes", List(<<List(<<Str(s)>>)>>)>>>>)
          [] shape = "list.dict.list" ->
                Dict(Header("1") \o
                     <<<<"rules", List(<<cond(<<"examples", List(<<Str(s)>>)>>)>>)>>>>)
          [] shape = "list.list.dict" ->
                Dict(Header("1") \o
                     <<g, <<"notes", List(<<List(<<Dict(<<<<"k", Str(s)>>>>)>>)>>)>>>>)
          [] shape = "dict.list" ->
                Dict(Header("1") \o
                     <<g, <<"notes", Dict(<<<<"k", List(<<Str(s)>>)>>>>)>>>>)
          [] shape = "[field]" -> List(<<field("1")>>)
          [] shape = "[field,field]" -> List(<<field("1"), field("2")>>)
          [] shape = "str" -> Str(s)
          [] shape = "minimal" ->
                Dict(<<<<"rule_id", Str(RuleIdChars("1"))>>, <<"name", Str(<<"A">>)>>,
                       <<"guideline", Str(s)>>>>)
          [] OTHER -> Dict(<<<<"rule_id", Str(RuleIdChars("1"))>>,
                             <<"guideline", Str(s)>>>>)

Shapes ==
    {"field", "list", "dict", "list.dict", "list.list", "list.dict.list",
     "list.list.dict", "dict.list", "[field]", "[field,field]", "str", "minimal",
     "noname"}

\* parser.parse(file_path) of the parser that _select_parser picks for the
\* suffix of the file
parse(fmt, data, t) ==
    IF fmt = "md" THEN MarkdownRuleParser_parse(data, t)
    ELSE IF fmt = "yaml" THEN YamlRuleParser_parse(data, t)
    ELSE JsonRuleParser_parse(data, t)

\* One file of either structured format is parsed.
Parse ==
    /\ last.op = "input"
    /\ last' = [op |-> "parse", fmt |-> last.input.fmt, shape |-> last.input.shape,
                data |-> Document(last.input.shape, last.input.s),
                result |-> parse(last.input.fmt,
                                 Document(last.input.shape, last.input.s), now)]
    /\ UNCHANGED <<heap, version_history, latest_versions, rules, rule_index,
                   initialized, disk, now, eng_rules, eng_index, eng_ready>>

InitParse ==
    InitDrawing({{}}, [fmt : {"yaml", "json"}, shape : Shapes, s : Payloads])

NextParse == Parse

SpecParse == InitParse /\ [][NextParse]_vars

\* Whether a text value anywhere in the document holds a marker
RECURSIVE ContainsMarker(_)
ContainsMarker(x) ==
    CASE x.t = "str" -> check_truncation(x)
      [] x.t = "list" -> \E j \in 1..Len(x.v) : ContainsMarker(x.v[j])
      [] x.t = "dict" -> \E i \in 1..Len(x.v) : ContainsMarker(x.v[i][2])
      [] OTHER -> FALSE

\* C11: a structured document that holds a truncation marker in a text
\* value at any depth is rejected by the truncation guard, in either format
\* and whether it is one rule or a list of rules, and the guard raises
\* nothing for a document that holds no marker.
C11_GuardRejectsExactlyMarked ==
    last.op = "parse" =>
        /\ ContainsMarker(last.data) => last.result.why = "truncation"
        /\ ~ContainsMarker(last.data) =>
              last.result.why \notin {"truncation", "find_truncation_in_dict"}

\* The attributes a RuleDatabase and a YamlRuleParser have: the methods of
\* the classes (those of the base class included) and the fields set in
\* __init__.  Looking up any other name raises AttributeError.
RuleDatabaseAttributes ==
    {"load_rules", "initialize", "_build_indexes", "_detect_all_conflicts",
     "get_rule", "get_rules_by_language", "get_rules_by_domain",
     "get_rules_by_type", "get_rules_by_tag", "add_rule", "update_rule",
     "save_rule", "_merge_rule_dicts", "_convert_rule_for_serialization",
     "get_database_stats", "search_rules", "_get_rule_file_path",
     "data_dir", "logger", "version_manager", "conflict_detector", "rules",
     "rule_index", "_initialized"}

YamlRuleParserAttributes ==
    {"can_parse", "parse", "_create_rule_from_yaml", "is_valid_url",
     "import_content", "import_rule", "db", "logger"}

\* YamlRuleParser.import_content(content, merge, append_mode) on a content
\* that loads as data, with the live rule map rl of the database over heap h.
\* Whatever is raised inside is raised again as RuleImportError.
import_content(data, merge, append_mode, h, rl, t) ==
    LET rule_id == Join(Get(data, "rule_id").v)
        inner ==
            IF Falsy(data) THEN Raise("RuleImportError", "empty")
            ELSE IF data.t # "dict"
            THEN Raise("AttributeError", "find_truncation_in_dict")
            ELSE IF find_truncation_in_dict(data) /\ ~append_mode
            THEN Raise("RuleImportError", "truncation")
            ELSE IF append_mode /\ (~Has(data, "rule_id") \/ Falsy(Get(data, "rule_id")))
            THEN Raise("RuleImportError", "rule_id")
            ELSE IF append_mode /\ "get_rule_by_id" \notin RuleDatabaseAttributes
            THEN Raise("AttributeError", "get_rule_by_id")
            ELSE IF append_mode /\ rule_id \in DOMAIN rl
            THEN IF "_merge_rule_content" \notin YamlRuleParserAttributes
                 THEN Raise("AttributeError", "_merge_rule_content")
                 ELSE Return(<<h[rl[rule_id]]>>)
            ELSE IF append_mode /\ ~merge THEN Raise("RuleImportError", "not found")
            ELSE _create_rule_from_yaml(data, t)
    IN  IF inner.exc # "" THEN Raise("RuleImportError", inner.why) ELSE inner

\* POST /import_rule with a content: import_content(content, merge, append_mode)
ImportContent ==
    /\ last.op = "input"
    /\ last' = [op |-> "import_content",
                data |-> Document(last.input.shape, last.input.s),
                merge |-> last.input.merge, append_mode |-> last.input.append_mode,
                result |-> import_content(Document(last.input.shape, last.input.s),
                                          last.input.merge, last.input.append_mode,
                                          heap, rules, now)]
    /\ UNCHANGED <<heap, version_history, latest_versions, rules, rule_index,
                   initialized, disk, now, eng_rules, eng_index, eng_ready>>

\* The data directory holds CR-1, or nothing.
InitContent ==
    InitDrawing(SUBSET {MkRule("CR-1", V100, {}, TRUE)},
                [shape : Shapes, s : Payloads, merge : BOOLEAN,
                 append_mode : BOOLEAN])

NextContent == ImportContent

SpecContent == InitContent /\ [][NextContent]_vars

\* C12: importing, in continuation mode, a document whose rule_id is that of
\* a rule the database holds succeeds, with or without a truncation marker
\* in the content, and returns that one rule.
C12_ContinuationReturnsExisting ==
    (/\ last.op = "import_content"
     /\ last.append_mode
     /\ last.data.t = "dict"
     /\ Has(last.data, "rule_id")
     /\ Join(Get(last.data, "rule_id").v) \in DOMAIN rules) =>
        /\ last.result.exc = ""
        /\ Len(last.result.rules) = 1
        /\ last.result.rules[1].rule_id = Join(Get(last.data, "rule_id").v)

-----------------------------------------------------------------------------
(* RuleDatabase._merge_rule_dicts (database.py)                            *)

\* Longest condition list of the documents that are merged.
MaxMergeConds == 2

\* d[key] = value on a dict: the value of a key that is there is replaced
\* where it stands, a new key goes to the end.
DictSet(d, key, value) ==
    IF Has(d, key)
    THEN Dict([i \in 1..Len(d.v) |->
                  IF d.v[i][1] = key THEN <<key, value>> ELSE d.v[i]])
    ELSE Dict(Append(d.v, <<key, value>>))

\* d.update(e)
RECURSIVE DictUpdate(_, _)
DictUpdate(d, e) ==
    IF e.v = <<>> THEN d
    ELSE DictUpdate(DictSet(d, e.v[1][1], e.v[1][2]), Dict(Tail(e.v)))

\* The loop over the new conditions (database.py 467-479) on the list
\* existing_rules: a condition whose 'condition' is missing, None or ''
\* is passed over.
RECURSIVE MergeConditions(_, _)
MergeConditions(existing_rules, value) ==
    IF value = <<>> THEN existing_rules
    ELSE LET new_rule == Head(value)
             condition == GetOr(new_rule, "condition", None)
             found == \E i \in 1..Len(existing_rules) :
                         GetOr(existing_rules[i], "condition", None) = condition
             first == CHOOSE i \in 1..Len(existing_rules) :
                         /\ GetOr(existing_rules[i], "condition", None) = condition
                         /\ \A j \in 1..(i - 1) :
                               GetOr(existing_rules[j], "condition", None) # condition
         IN  MergeConditions(
                 IF new_rule.t # "dict" \/ Falsy(condition) THEN existing_rules
                 ELSE IF found
                 THEN [existing_rules EXCEPT ![first] = DictUpdate(@, new_rule)]
                 ELSE Append(existing_rules, new_rule),
                 Tail(value))

\* _merge_rule_dicts(existing, new)
RECURSIVE _merge_rule_dicts(_, _)
_merge_rule_dicts(existing, new) ==
    IF new.v = <<>> THEN existing
    ELSE LET key == new.v[1][1]
             value == new.v[1][2]
             result ==
                 IF key = "rules" /\ value.t = "list"
                 THEN DictSet(existing, "rules",
                         List(MergeConditions(GetOr(existing, "rules", List(<<>>)).v,
                                              value.v)))
                 ELSE IF value.t # "none" THEN DictSet(existing, key, value)
                 ELSE existing
         IN  _merge_rule_dicts(result, Dict(Tail(new.v)))

\* The conditions of the stored record and of the new payload
Condition(c, g) == Dict(<<<<"condition", Str(c)>>, <<"guideline", Str(g)>>>>)

ExistingConditions == {Condition(<<"a">>, <<"g">>), Condition(<<"b">>, <<"g">>)}

NewConditions ==
    {Condition(<<"a">>, <<"h">>), Condition(<<"c">>, <<"h">>),
     Condition(<<>>, <<"h">>)}

ConditionLists(S) == UNION {[1..k -> S] : k \in 0..MaxMergeConds}

\* The stored record: a description and a condition list
ExistingDocuments ==
    {Dict(Header("1") \o <<<<"rules", List(cl)>>>>) :
        cl \in ConditionLists(ExistingConditions)}

\* The new payload: a description that is absent, None, empty or a text,
\* and a condition list
NewDocuments ==
    {Dict(d \o <<<<"rules", List(cl)>>>>) :
        d \in {<<>>, <<<<"description", None>>>>, <<<<"description", Str(<<>>)>>>>,
               <<<<"description", Str(<<"n">>)>>>>},
        cl \in ConditionLists(NewConditions)}

\* save_rule(rule, append_mode=True) merges what the file holds with the
\* new payload.
MergeRuleDicts ==
    /\ last.op = "input"
    /\ last' = [op |-> "merge", existing |-> last.input.existing,
                new |-> last.input.new,
                result |-> _merge_rule_dicts(last.input.existing, last.input.new)]
    /\ UNCHANGED <<heap, version_history, latest_versions, rules, rule_index,
                   initialized, disk, now, eng_rules, eng_index, eng_ready>>

InitMerge ==
    InitDrawing({{}}, [existing : ExistingDocuments, new : NewDocuments])

NextMerge == MergeRuleDicts

SpecMerge == InitMerge /\ [][NextMerge]_vars

\* The reference merge of condition lists: a new condition replaces the
\* fields of the first condition with its trigger, or is appended.
RECURSIVE ReferenceConditions(_, _)
ReferenceConditions(conds, new_conds) ==
    IF new_conds = <<>> THEN conds
    ELSE LET n == Head(new_conds)
             hit == {i \in 1..Len(conds) :
                        Get(conds[i], "condition") = Get(n, "condition")}
             first == CHOOSE i \in hit : \A j \in hit : i <= j
         IN  ReferenceConditions(
                 IF hit # {} THEN [conds EXCEPT ![first] = DictUpdate(@, n)]
                 ELSE Append(conds, n),
                 Tail(new_conds))

\* C13: the merged document has the condition list of the reference merge
\* (existing conditions in their positions, updated where a new condition
\* has the same trigger, the other new conditions appended in order, none
\* lost), and every scalar field keeps the existing value unless the new
\* value is non-empty.
C13_MergeIsReferenceMerge ==
    last.op = "merge" =>
        /\ Get(last.result, "rules").v =
              ReferenceConditions(Get(last.existing, "rules").v,
                                  Get(last.new, "rules").v)
        /\ \A key \in {"rule_id", "name", "description"} :
              Get(last.result, key) =
                 IF Has(last.new, key) /\ ~Falsy(Get(last.new, key))
                 THEN Get(last.new, key)
                 ELSE Get(last.existing, key)

-----------------------------------------------------------------------------
(* UnifiedRuleImporter (rule_import.py)                                    *)

\* Number of paths of one batch.
MaxBatch == 2

\* A path of the file system: a file that is not there ("missing"), a file
\* that cannot be opened ("unreadable"), a file whose text the loader
\* refuses ("malformed"), a file that loads as data ("ok"), or a directory
\* ("dir").  fmt is the format the suffix of the name stands for.
File(path, kind, fmt, data) ==
    [path |-> path, kind |-> kind, fmt |-> fmt, data |-> data]

\* The files of the one directory of the model
DirFiles ==
    {File("d/zero.json", "ok", "json", List(<<Number(1)>>)),
     File("d/notes.txt", "ok", "txt", Str(<<"a">>))}

\* The paths a batch may name
ImportPaths ==
    {File("gone.yaml", "missing", "yaml", None),
     File("locked.yaml", "unreadable", "yaml", None),
     File("bad.json", "malformed", "json", None),
     File("rule.yaml", "ok", "yaml", Document("field", <<"a">>)),
     File("rule.json", "ok", "json", Document("field", <<"a">>)),
     File("noname.yaml", "ok", "yaml", Document("noname", <<"a">>)),
     File("cut.yaml", "ok", "yaml", Document("field", <<"[", ".", ".", ".", "]">>)),
     File("list.json", "ok", "json", Document("[field,field]", <<"a">>)),
     File("ones.json", "ok", "json", List(<<Number(1)>>)),
     File("readme.txt", "ok", "txt", Str(<<"a">>)),
     File("d", "dir", "", None)}

LogEntry(file_path, status) == [file |-> file_path, status |-> status]

\* _import_file without its try/except: the exception of the parser leaves
\* the function.
_import_file_unguarded(f, t) ==
    LET r == parse(f.fmt, f.data, t)
    IN  IF f.kind = "missing"
        THEN [exc |-> "", log |-> <<LogEntry(f.path, "error")>>, rules |-> <<>>]
        ELSE IF f.fmt \notin {"md", "yaml", "json"}
        THEN [exc |-> "", log |-> <<LogEntry(f.path, "error")>>, rules |-> <<>>]
        ELSE IF f.kind \in {"unreadable", "malformed"}
        THEN [exc |-> "OSError", log |-> <<>>, rules |-> <<>>]
        ELSE IF r.exc # "" THEN [exc |-> r.exc, log |-> <<>>, rules |-> <<>>]
        ELSE [exc |-> "",
              log |-> [i \in 1..Len(r.rules) |-> LogEntry(f.path, "success")],
              rules |-> r.rules]

\* _import_file(file_path) at time t: the entries it appends to the import
\* log and the rules it returns.  Every exception is caught and logged.
_import_file(f, t) ==
    LET r == parse(f.fmt, f.data, t)
    IN  IF f.kind = "missing"
        THEN [exc |-> "", log |-> <<LogEntry(f.path, "error")>>, rules |-> <<>>]
        ELSE IF f.fmt \notin {"md", "yaml", "json"}
        THEN [exc |-> "", log |-> <<LogEntry(f.path, "error")>>, rules |-> <<>>]
        ELSE IF f.kind \in {"unreadable", "malformed"} \/ r.exc # ""
        THEN [exc |-> "", log |-> <<LogEntry(f.path, "error")>>, rules |-> <<>>]
        ELSE [exc |-> "",
              log |-> [i \in 1..Len(r.rules) |-> LogEntry(f.path, "success")],
              rules |-> r.rules]

\* The loop of import_rules and of _import_directory over a list of files:
\* an exception that leaves _import_file ends it.
RECURSIVE ImportFiles(_, _)
ImportFiles(files, t) ==
    IF files = <<>> THEN [exc |-> "", log |-> <<>>, rules |-> <<>>]
    ELSE LET r == _import_file(Head(files), t)
             rest == ImportFiles(Tail(files), t)
         IN  IF r.exc # "" THEN r
             ELSE [exc |-> rest.exc, log |-> r.log \o rest.log,
                   rules |-> r.rules \o rest.rules]

\* _import_directory(dir_path) when glob yields the files in the order
\* `listing`: the files with a supported extension are imported.
SupportedExtension(f) == f.fmt \in {"md", "yaml", "json"}

_import_directory(listing, t) == ImportFiles(SelectSeq(listing, SupportedExtension), t)

\* import_rules(paths): listings gives, for each place of paths, the order
\* in which glob yields the files of the directory.
RECURSIVE import_rules(_, _, _)
import_rules(paths, listings, t) ==
    IF paths = <<>> THEN [exc |-> "", log |-> <<>>, rules |-> <<>>]
    ELSE LET path == Head(paths)
             r == IF path.kind = "dir" THEN _import_directory(Head(listings), t)
                  ELSE IF path.kind = "missing"
                  THEN [exc |-> "", log |-> <<LogEntry(path.path, "error")>>,
                        rules |-> <<>>]
                  ELSE _import_file(path, t)
             rest == import_rules(Tail(paths), Tail(listings), t)
         IN  IF r.exc # "" THEN r
             ELSE [exc |-> rest.exc, log |-> r.log \o rest.log,
                   rules |-> r.rules \o rest.rules]

\* The loop of import_rules_async that saves the rules: s holds the
\* database (h, vh, lv, rl, idx, dk) and the import log.
RECURSIVE SaveRules(_, _, _)
SaveRules(s, rl_new, merge) ==
    IF rl_new = <<>> THEN s
    ELSE LET rule == Head(rl_new)
             save_path == "imported/" \o rule.rule_id
             h2 == Append(s.h, rule)
             o == Len(h2)
             r == add_rule(h2, s.vh, s.lv, s.rl, s.idx, s.dk, o, TRUE)
             added == [h |-> Retain(s.h, h2, r.vh, o), vh |-> r.vh, lv |-> r.lv,
                       rl |-> r.rl, idx |-> r.idx, dk |-> r.dk,
                       log |-> Append(s.log,
                                  LogEntry(save_path,
                                      IF r.ret = "raised" THEN "error" ELSE "success"))]
         IN  SaveRules(
                 IF rule.rule_id \in DOMAIN s.rl /\ ~merge
                 THEN [s EXCEPT !.log = Append(@, LogEntry(save_path, "error"))]
                 ELSE added,
                 Tail(rl_new), merge)

\* get_import_summary(): success_rate is the fraction successful / total,
\* kept as numerator and denominator, 0/1 for 0.0
get_import_summary(import_log) ==
    LET total == Len(import_log)
        success == Cardinality({i \in 1..Len(import_log) :
                                   import_log[i].status = "success"})
    IN  [total_files |-> total, successful_imports |-> success,
         failed_imports |-> total - success,
         success_rate |-> IF total > 0 THEN <<success, total>> ELSE <<0, 1>>]

\* The batches: up to MaxBatch paths
Batches == UNION {[1..k -> ImportPaths] : k \in 1..MaxBatch}

\* importer = UnifiedRuleImporter(save_to_database=True);
\* importer.import_rules_async(paths, merge=merge);
\* importer.get_import_summary().  The database is initialized first.
\* With `once` the behaviour holds a single batch.
ImportRulesOf(B, once) ==
    \E paths \in B, merge \in BOOLEAN :
      \E listing \in IF \E i \in 1..Len(paths) : paths[i].kind = "dir"
                     THEN Orders(DirFiles)
                     ELSE {CHOOSE q \in Orders(DirFiles) : TRUE} :
        \E imported \in {import_rules(paths, [i \in 1..Len(paths) |-> listing], now)} :
          \E s \in {SaveRules([h |-> heap, vh |-> version_history,
                               lv |-> latest_versions, rl |-> rules,
                               idx |-> IF initialized THEN rule_index
                                       ELSE _build_indexes(heap, rules),
                               dk |-> disk, log |-> imported.log],
                              IF imported.exc = "" THEN imported.rules ELSE <<>>,
                              merge)} :
            /\ once => last.op # "import"
            /\ heap' = s.h
            /\ version_history' = s.vh
            /\ latest_versions' = s.lv
            /\ rules' = s.rl
            /\ rule_index' = s.idx
            /\ disk' = s.dk
            /\ initialized' = TRUE
            /\ last' = [op |-> "import", paths |-> paths, merge |-> merge,
                        listing |-> listing, exc |-> imported.exc,
                        rules |-> imported.rules, log |-> s.log,
                        summary |-> get_import_summary(s.log)]
            /\ UNCHANGED <<now, eng_rules, eng_index, eng_ready>>

\* An importer is made for one batch and its log starts empty: a behaviour
\* of this specification holds one batch, on a database that initialize()
\* has or has not been called on before.
ImportRules == ImportRulesOf(Batches, TRUE)

InitImport == InitOf({{}})

NextImport == Initialize \/ ImportRules

SpecImport == InitImport /\ [][NextImport]_vars

\* The files a batch submits: the files it names and the files with a
\* supported extension of the directories it names
Submitted(paths) ==
    {paths[i] : i \in {j \in 1..Len(paths) : paths[j].kind # "dir"}}
    \cup (IF \E i \in 1..Len(paths) : paths[i].kind = "dir"
          THEN {f \in DirFiles : SupportedExtension(f)} ELSE {})

\* The rules of a file that parses, and no rule for any other file
ParsedRules(f, t) ==
    IF f.kind = "ok" /\ f.fmt \in {"md", "yaml", "json"} /\ parse(f.fmt, f.data, t).exc = ""
    THEN parse(f.fmt, f.data, t).rules
    ELSE <<>>

RECURSIVE ExpectedRules(_, _, _)
ExpectedRules(paths, listing, t) ==
    IF paths = <<>> THEN <<>>
    ELSE (IF Head(paths).kind = "dir"
          THEN ExpectedRules(SelectSeq(listing, SupportedExtension), listing, t)
          ELSE ParsedRules(Head(paths), t))
         \o ExpectedRules(Tail(paths), listing, t)

\* Whether the batch dealt with the file: the log has an entry for it, or
\* it parsed to no rule at all
Processed(f, t) ==
    \/ \E i \in 1..Len(last.log) : last.log[i].file = f.path
    \/ /\ f.kind = "ok" /\ f.fmt \in {"md", "yaml", "json"}
       /\ parse(f.fmt, f.data, t) = Return(<<>>)

\* C14: a batch import raises nothing whatever files it names; every file
\* of the batch is dealt with, in whatever order the files come, and the
\* rules returned are those of the files that parsed, in order.
C14_BatchNeverAborted ==
    last.op = "import" =>
        /\ last.exc = ""
        /\ \A f \in Submitted(last.paths) : Processed(f, now)
        /\ last.rules = ExpectedRules(last.paths, last.listing, now)

\* A batch whose first file cannot be read, is malformed or lacks a field,
\* and whose second file is another one that has its entry in the log.
C14_Witness ==
    /\ last.op = "import"
    /\ Len(last.paths) = 2
    /\ last.paths[1].path \in {"locked.yaml", "bad.json", "noname.yaml"}
    /\ last.paths[2].path \in {"rule.yaml", "gone.yaml"}
    /\ \E i \in 1..Len(last.log) : last.log[i].file = last.paths[2].path
    /\ \E i \in 1..Len(last.log) : last.log[i].file = last.paths[1].path

\* C15: after a batch import every submitted file, a file that yields no
\* rule included, has at least one entry in the import log, and the summary
\* has total = succeeded + failed and success_rate = succeeded / total,
\* 0 when total is 0.
C15_EveryFileLogged ==
    last.op = "import" =>
        /\ \A f \in Submitted(last.paths) :
              \E i \in 1..Len(last.log) : last.log[i].file = f.path
        /\ last.summary.total_files =
              last.summary.successful_imports + last.summary.failed_imports
        /\ last.summary.success_rate =
              IF last.summary.total_files = 0 THEN <<0, 1>>
              ELSE <<last.summary.successful_imports, last.summary.total_files>>

-----------------------------------------------------------------------------
(* Registration of version strings that version.parse refuses.             *)

VBad2 == <<"x", ".", "1">>

BadVersionCatalog ==
    {CursorRule(MkRule("CR-1", v, {}, TRUE)) : v \in {V100, V110, VBad, VBad2}}
    \cup {CursorRule(MkRule("CR-2", VBad, {}, TRUE))}

InitBadVersion == InitOf({{}})

RegisterAnyVersion == AddRuleOf(BadVersionCatalog, {FALSE}, MaxObjs)

NextBadVersion == Initialize \/ RegisterAnyVersion

SpecBadVersion == InitBadVersion /\ [][NextBadVersion]_vars

\* C16: registering a rule whose version string is no parsable version
\* (and is not yet in the history) raises nothing and is not aborted: the
\* rule is stored in the history and in the live map.
C16_UnparsableVersionRegistered ==
    (/\ last.op = "add"
     /\ ~VersionValid(last.rule.version)
     /\ last.ret # "false") =>
        /\ last.ret = "true"
        /\ last.arg \in Range(version_history[last.rule.rule_id])
        /\ last.rule.rule_id \in DOMAIN rules

-----------------------------------------------------------------------------
(* Imports of one file, one after another, on a database that rules are    *)
(* also added to.                                                          *)

ReimportCatalog ==
    {CursorRule(MkRule("CR-1", V100, {}, TRUE)),
     CursorRule(MkRule("CR-1", V110, {}, TRUE)),
     CursorRule(MkRule("CR-2", V100, {}, TRUE))}

ReimportBatches ==
    {<<f>> : f \in {g \in ImportPaths :
                       g.path \in {"rule.yaml", "rule.json", "ones.json",
                                   "noname.yaml"}}}

ImportOneFile == ImportRulesOf(ReimportBatches, FALSE)

AddOther == AddRuleOf(ReimportCatalog, {FALSE}, MaxHeld)

InitReimport == InitOf({{}})

NextReimport == Initialize \/ AddOther \/ ImportOneFile

SpecReimport == InitReimport /\ [][NextReimport]_vars

\* The file holds one well-formed rule document
WellFormedRuleFile(f) ==
    /\ f.kind = "ok"
    /\ f.data.t = "dict"
    /\ \A key \in {"rule_id", "name", "description", "guideline"} : Has(f.data, key)
    /\ ~ContainsMarker(f.data)

Bodies == UNION {[1..n -> {"a", "\n", "#"}] : n \in 0..MaxBody}

\* _build_rule_data segments a body that is longer than LongBody.
SplitContent ==
    /\ last.op = "input"
    /\ last' = [op |-> "split", content |-> last.input,
                parts |-> _split_content_intelligently(last.input, SegmentCap)]
    /\ UNCHANGED <<heap, version_history, latest_versions, rules, rule_index,
                   initialized, disk, now, eng_rules, eng_index, eng_ready>>

InitSplit == InitDrawing({{}}, Bodies)

NextSplit == SplitContent

SpecSplit == InitSplit /\ [][NextSplit]_vars

\* The paragraphs of a text: its blank-line-delimited pieces, stripped, the
\* empty ones left out
RECURSIVE StrippedNonEmpty(_)
StrippedNonEmpty(pieces) ==
    IF pieces = <<>> THEN <<>>
    ELSE (IF Strip(Head(pieces)) # <<>> THEN <<Strip(Head(pieces))>> ELSE <<>>)
         \o StrippedNonEmpty(Tail(pieces))

Paragraphs(text) == StrippedNonEmpty(Split(text, <<"\n", "\n">>, <<>>))

\* The paragraphs of the chunks, taken in order
RECURSIVE ChunkParagraphs(_)
ChunkParagraphs(parts) ==
    IF parts = <<>> THEN <<>>
    ELSE Paragraphs(Head(parts)) \o ChunkParagraphs(Tail(parts))

\* A body that _build_rule_data segments: longer than LongBody, not blank,
\* and without a heading mark
SegmentedBody(content) ==
    /\ Len(content) > LongBody
    /\ Strip(content) # <<>>
    /\ \A i \in 1..Len(content) : content[i] # "#"

\* C19: the segmentation of a long body without headings yields at least
\* two chunks, the paragraphs of the chunks taken in order are the
\* paragraphs of the body, each exactly once, and a chunk that is longer
\* than the cap consists of a single paragraph.
C19_ChunksCoverBodyWithinCap ==
    (last.op = "split" /\ SegmentedBody(last.content)) =>
        /\ Len(last.parts) >= 2
        /\ ChunkParagraphs(last.parts) = Paragraphs(last.content)
        /\ \A i \in 1..Len(last.parts) :
              \/ Len(last.parts[i]) <= SegmentCap
              \/ Len(Paragraphs(last.parts[i])) = 1

-----------------------------------------------------------------------------
(* The Markdown files of the model                                         *)

\* The headers: with rule_id and name ("full"), without name ("noname"),
\* empty ("none"); priority 0 stands for a header without priority.
MarkdownHeader(shape, priority) ==
    Dict((CASE shape = "full" -> <<<<"rule_id", Str(RuleIdChars("1"))>>,
                                    <<"name", Str(<<"A">>)>>>>
            [] shape = "noname" -> <<<<"rule_id", Str(RuleIdChars("1"))>>>>
            [] OTHER -> <<>>)
         \o (IF priority = 0 THEN <<>> ELSE <<<<"priority", Number(priority)>>>>))

\* Bodies without headings: blank, short, and long ones that are segmented
\* into one, two and three parts
MarkdownBodies ==
    {<<>>, <<"a">>, <<"a", "\n", "\n", "a">>,
     <<"a", "a", "a", "a", "a", "a", "a", "a">>,
     <<"a", "a", "a", "\n", "\n", "a", "a", "a">>,
     <<"a", "a", "\n", "\n", "a", "a", "\n", "\n", "a", "a">>}

\* One Markdown file is parsed.
ParseMarkdown ==
    /\ last.op = "input"
    /\ LET post == Markdown(MarkdownHeader(last.input.shape, last.input.priority),
                            last.input.body)
       IN  last' = [op |-> "parse_md", post |-> post,
                    conditions |-> MarkdownConditions(post.metadata, post.content),
                    result |-> parse("md", post, now)]
    /\ UNCHANGED <<heap, version_history, latest_versions, rules, rule_index,
                   initialized, disk, now, eng_rules, eng_index, eng_ready>>

InitMarkdown ==
    InitDrawing({{}}, [shape : {"full", "noname", "none"}, priority : 0..10,
                       body : MarkdownBodies])

NextMarkdown == ParseMarkdown

SpecMarkdown == InitMarkdown /\ [][NextMarkdown]_vars

\* C18: a Markdown file whose header gives rule_id, name and a base
\* priority within 1..10 (or none) imports without error, and every
\* condition synthesized for it has a priority within 1..10.
C18_SynthesizedPrioritiesInRange ==
    (/\ last.op = "parse_md"
     /\ Has(last.post.metadata, "rule_id")
     /\ Has(last.post.metadata, "name")) =>
        /\ last.result.exc = ""
        /\ \A i \in 1..Len(last.conditions) :
              Get(last.conditions[i], "priority").v \in 1..10

\* C20: a structured document that gives only rule_id, name and a top-level
\* guideline imports, in either format, as exactly one rule with exactly
\* one condition that carries the guideline with priority 8; the rule type
\* is "content" and the other fields have their defaults.
C20_MinimalDocumentImports ==
    (/\ last.op = "parse"
     /\ last.shape = "minimal"
     /\ ~ContainsMarker(last.data)) =>
        /\ last.result.exc = ""
        /\ Len(last.result.rules) = 1
        /\ last.result.rules[1].rule_id = Join(RuleIdChars("1"))
        /\ last.result.rules[1].rules
              = <<Cond(<<"main_rule">>, Get(last.data, "guideline").v, 8)>>
        /\ last.result.rules[1].rule_type = "content"
        /\ last.result.rules[1].version = V100
        /\ last.result.rules[1].active
        /\ last.result.rules[1].content_types = {"code"}
        /\ last.result.rules[1].languages = {}
        /\ last.result.rules[1].tags = <<>>

-----------------------------------------------------------------------------
(* The round trip of a rule through its file                                *)

\* list(S) of a set, in one of its orders
SeqOf(S) == CHOOSE q \in Orders(S) : TRUE

\* The characters of an identifier of the model
IdChars(rule_id) ==
    CASE rule_id = "CR-1" -> RuleIdChars("1")
      [] rule_id = "CR-2" -> RuleIdChars("2")
      [] OTHER -> RuleIdChars("3")

\* A list of str out of a set of one-word strings
StrList(S) == List([i \in 1..Cardinality(S) |-> Str(<<SeqOf(S)[i]>>)])

\* _convert_rule_for_serialization(rule): the dict that yaml.dump writes
\* and yaml.safe_load reads back, enum members as their values
_convert_rule_for_serialization(rule) ==
    Dict(<<<<"rule_id", Str(IdChars(rule.rule_id))>>,
           <<"name", Str(rule.name)>>,
           <<"description", Str(rule.description)>>,
           <<"version", Str(rule.version)>>,
           <<"updated_at", Number(rule.updated_at)>>,
           <<"rule_type", Str(<<rule.rule_type>>)>>,
           <<"languages", StrList(rule.languages)>>,
           <<"domains", StrList(rule.domains)>>,
           <<"content_types", StrList(rule.content_types)>>,
           <<"tags", List([i \in 1..Len(rule.tags) |-> Str(rule.tags[i])])>>,
           <<"rules", List([i \in 1..Len(rule.rules) |->
                              Dict(<<<<"condition", Str(rule.rules[i].condition)>>,
                                     <<"guideline", Str(rule.rules[i].guideline)>>,
                                     <<"priority", Number(rule.rules[i].priority)>>>>)])>>,
           <<"conflicts_with", StrList(rule.conflicts_with)>>,
           <<"overrides", StrList(rule.overrides)>>,
           <<"validation",
             Dict(<<<<"tools", StrList(rule.validation.tools)>>,
                    <<"severity", Str(<<rule.validation.severity>>)>>>>)>>,
           <<"active", Bool(rule.active)>>,
           <<"success_rate", Number(rule.success_rate)>>>>)

\* Rules whose guideline or description spans several lines, and rules of
\* one-line texts
RoundTripCatalog ==
    {CursorRule(d) : d \in
        {MkRule("CR-1", V100, {}, TRUE),
         [MkRule("CR-1", V110, {}, TRUE) EXCEPT
             !.rules = <<Cond(<<"a">>, <<"a", "\n", "b">>, 8)>>],
         [MkRule("CR-2", V100, {}, TRUE) EXCEPT
             !.description = <<"a", "\n", " ", "b">>],
         MkRule("CR-3", V100, {}, FALSE)}}

\* add_rule(rule, file_path) with a file path: the rule is saved.
AddAndPersist == AddRuleOf(RoundTripCatalog, {TRUE}, MaxHeld)

\* A file that save_rule wrote is imported again: YamlRuleParser.parse
\* on the rule file of a version the history holds.
ReimportSaved ==
    /\ \E f \in {g \in disk : g.fmt = "yaml"} :
         \E o \in {x \in 1..Len(heap) :
                      /\ _get_rule_file_path(heap[x]) = f.name
                      /\ \E rid \in DOMAIN version_history :
                            x \in Range(version_history[rid])} :
            last' = [op |-> "reimport", stored |-> heap[o], file |-> f.data,
                     result |-> parse("yaml", _convert_rule_for_serialization(f.data),
                                      now)]
    /\ UNCHANGED <<heap, version_history, latest_versions, rules, rule_index,
                   initialized, disk, now, eng_rules, eng_index, eng_ready>>

InitRoundTrip == InitOf({{}})

NextRoundTrip == Initialize \/ AddAndPersist \/ ReimportSaved

SpecRoundTrip == InitRoundTrip /\ [][NextRoundTrip]_vars

\* C21: the file of a stored rule holds the fields of the rule as they are
\* stored, and importing the file yields one rule that is equal to the
\* stored rule field for field, the time stamp left aside.
C21_RoundTrip ==
    last.op = "reimport" =>
        /\ last.file = last.stored
        /\ last.result.exc = ""
        /\ Len(last.result.rules) = 1
        /\ [last.result.rules[1] EXCEPT !.updated_at = 0]
              = [last.stored EXCEPT !.updated_at = 0]

-----------------------------------------------------------------------------
(* The tags of a rule                                                       *)

\* Number of tags a caller supplies, and the length of a tag
MaxTags == 3

MaxTagLen == 2

\* The tags a caller may supply: texts of letters in either case and blanks
SuppliedTags ==
    LET texts == UNION {[1..n -> {"a", "A", " "}] : n \in 0..MaxTagLen}
    IN  UNION {[1..k -> texts] : k \in 0..MaxTags}

\* CursorRule(..., tags=supplied): the rule is constructed.
ConstructRule ==
    /\ last.op = "input"
    /\ last' = [op |-> "construct", supplied |-> last.input,
                rule |-> CursorRule([MkRule("CR-1", V100, {}, TRUE)
                                        EXCEPT !.tags = last.input])]
    /\ UNCHANGED <<heap, version_history, latest_versions, rules, rule_index,
                   initialized, disk, now, eng_rules, eng_index, eng_ready>>

InitTags == InitDrawing({{}}, SuppliedTags)

NextTags == ConstructRule

SpecTags == InitTags /\ [][NextTags]_vars

\* C22: the tags of a rule are the supplied tags in lower case and
\* trimmed, the empty ones left out, each once: no tag of the rule has an
\* upper-case letter or a blank at either end, none is empty, none occurs
\* twice.
C22_TagsNormalizedDistinct ==
    last.op = "construct" =>
        LET T == last.rule.tags
        IN  /\ \A i \in 1..Len(T) :
                  /\ T[i] = Lower(T[i])
                  /\ T[i] = Strip(T[i])
                  /\ T[i] # <<>>
            /\ Range(T) = {Strip(Lower(last.supplied[i])) :
                              i \in 1..Len(last.supplied)} \ {<<>>}
            /\ \A i, j \in 1..Len(T) : i # j => T[i] # T[j]

-----------------------------------------------------------------------------
(* The conflict detector on two rules                                       *)

\* detect_conflicts as the list the loop over all_rules builds, record by
\* record in the order of the appends.
RECURSIVE detect_conflicts_list(_, _)
detect_conflicts_list(rule, all_rules) ==
    IF all_rules = <<>> THEN <<>>
    ELSE LET other_rule == Head(all_rules)
             rest == detect_conflicts_list(rule, Tail(all_rules))
             entry(type, severity) ==
                 <<[type |-> type, rule_id |-> other_rule.rule_id,
                    severity |-> severity]>>
         IN  IF other_rule.rule_id = rule.rule_id THEN rest
             ELSE (IF other_rule.rule_id \in rule.conflicts_with
                   THEN entry("explicit_conflict", "error") ELSE <<>>)
                  \o (IF other_rule.rule_id \in rule.overrides
                      THEN entry("override", "warning") ELSE <<>>)
                  \o (IF _check_scope_conflict(rule, other_rule)
                      THEN entry("scope_overlap", "warning") ELSE <<>>)
                  \o (IF _check_validation_tool_conflict(rule, other_rule)
                      THEN entry("validation_tool_conflict", "info") ELSE <<>>)
                  \o rest

\* The pairs of rules the detector is run on: A is CR-1 with every choice
\* of scope and type, B is CR-2 of two scopes, each with or without a
\* declared conflict or override; CR-3 is a bystander.
ScopedRules(id, Languages, Domains, ContentTypes, Types, Declared) ==
    {CursorRule([MkRule(id, V100, cw, TRUE)
                    EXCEPT !.languages = l, !.domains = d,
                           !.content_types = c, !.rule_type = t,
                           !.overrides = cw]) :
        l \in Languages, d \in Domains, c \in ContentTypes, t \in Types,
        cw \in Declared}

RulesA ==
    ScopedRules("CR-1", {{}, {"python"}, {"python", "cpp"}}, {{}, {"web"}},
                {{"code"}, {"documentation"}}, {"style", "content"},
                {{}, {"CR-1", "CR-2"}})

RulesB ==
    ScopedRules("CR-2", {{"python"}, {"cpp"}}, {{"web"}},
                {{"code", "documentation"}}, {"style"}, {{}})

Bystander == CursorRule(MkRule("CR-3", V100, {}, TRUE))

\* The lists all_rules: A and B, with or without the bystander, in every order.
DetectorInputs ==
    {[a |-> a, b |-> b, all_rules |-> l] :
        a \in RulesA, b \in RulesB,
        l \in UNION {Orders({1, 2}), Orders({1, 2, 3})}}

\* detect_conflicts(A, all_rules) and detect_conflicts(B, all_rules).
DetectConflicts ==
    /\ last.op = "input"
    /\ LET pick(i) == CASE i = 1 -> last.input.a
                        [] i = 2 -> last.input.b
                        [] OTHER -> Bystander
           all_rules == [i \in 1..Len(last.input.all_rules) |->
                            pick(last.input.all_rules[i])]
       IN  last' = [op |-> "detect", a |-> last.input.a, b |-> last.input.b,
                    forward |-> detect_conflicts_list(last.input.a, all_rules),
                    backward |-> detect_conflicts_list(last.input.b, all_rules)]
    /\ UNCHANGED <<heap, version_history, latest_versions, rules, rule_index,
                   initialized, disk, now, eng_rules, eng_index, eng_ready>>

InitConflicts == InitDrawing({{}}, DetectorInputs)

NextConflicts == DetectConflicts

SpecConflicts == InitConflicts /\ [][NextConflicts]_vars

\* The number of scope_overlap records of a result that name rule_id.
ScopeOverlaps(conflicts, rule_id) ==
    Cardinality({i \in 1..Len(conflicts) :
                    /\ conflicts[i].type = "scope_overlap"
                    /\ conflicts[i].rule_id = rule_id})

SharedScope(a, b) ==
    /\ a.languages \cap b.languages # {}
    /\ a.domains \cap b.domains # {}
    /\ a.content_types \cap b.content_types # {}
    /\ a.rule_type = b.rule_type

\* C23: the detector run on A against rules that include B reports one
\* scope_overlap record of severity warning naming B when A and B share a
\* language, a domain and a content type and have the same rule_type, and
\* none otherwise; B against A reports it exactly when A against B does;
\* no record names the rule the detector was run on.
C23_ScopeOverlapExact ==
    last.op = "detect" =>
        /\ ScopeOverlaps(last.forward, "CR-2")
              = (IF SharedScope(last.a, last.b) THEN 1 ELSE 0)
        /\ ScopeOverlaps(last.backward, "CR-1")
              = ScopeOverlaps(last.forward, "CR-2")
        /\ \A i \in 1..Len(last.forward) :
              /\ last.forward[i].rule_id # "CR-1"
              /\ last.forward[i].type = "scope_overlap"
                    => last.forward[i].severity = "warning"
        /\ \A i \in 1..Len(last.backward) : last.backward[i].rule_id # "CR-2"

\* The detector has reported an overlap in both directions for a rule that
\* also names itself among its declared overrides.
C23_Witness ==
    /\ last.op = "detect"
    /\ ScopeOverlaps(last.forward, "CR-2") = 1
    /\ ScopeOverlaps(last.backward, "CR-1") = 1
    /\ "CR-1" \in last.a.overrides

-----------------------------------------------------------------------------
(* Rules without conditions                                                 *)

\* Rule objects with and without conditions: CursorRule(..., rules=[])
\* is constructed like any other.
ConditionsCatalog ==
    {CursorRule(d) : d \in
        {[MkRule("CR-1", V100, {}, TRUE) EXCEPT !.rules = <<>>],
         MkRule("CR-1", V110, {}, TRUE),
         [MkRule("CR-2", V100, {}, TRUE) EXCEPT !.rules = <<>>],
         MkRule("CR-3", V100, {}, TRUE),
         [MkRule("CR-3", V110, {}, FALSE) EXCEPT !.rules = <<>>]}}

AddWithConditions == AddRuleOf(ConditionsCatalog, {TRUE, FALSE}, MaxHeld)

InitConditions == InitOf({{}})

NextConditions == Initialize \/ AddWithConditions

SpecConditions == InitConditions /\ [][NextConditions]_vars

\* C24: every rule of the version history, of the live rule map and of a
\* rule file has at least one condition, and add_rule of a rule without
\* conditions does not return True.
C24_NoRuleWithoutConditions ==
    /\ \A rid \in DOMAIN version_history :
          \A o \in Range(version_history[rid]) : heap[o].rules # <<>>
    /\ \A rid \in DOMAIN rules : heap[rules[rid]].rules # <<>>
    /\ \A f \in disk : f.data.rules # <<>>
    /\ (last.op = "add" /\ last.rule.rules = <<>>) => last.ret # "true"

-----------------------------------------------------------------------------
(* Searches and rebuilds as tasks of one event loop                         *)

\* The calls of the server handlers run as coroutines of the one event loop
\* of asyncio.run(main()).  A coroutine gives the loop to another task only
\* where it awaits a future that is not done; awaiting a coroutine runs it
\* at once.  InnerAwaits names what the body of each coroutine awaits.
InnerAwaits(coroutine) ==
    CASE coroutine = "reload" -> {"load_rules"}
      [] coroutine = "load_rules" -> {"_load_json_rules", "_load_yaml_rules"}
      [] coroutine = "_load_json_rules" -> {"_parse_rule_data"}
      [] coroutine = "_load_yaml_rules" -> {"_parse_rule_data"}
      [] coroutine = "_parse_rule_data" -> {"_adapt_rule_data"}
      [] coroutine = "search_rules" ->
            {"_calculate_rule_score", "_get_matched_conditions",
             "_get_application_context"}
      [] coroutine = "add_rule" -> {"_build_indexes"}
      [] OTHER -> {}

\* Awaitables that suspend the task that awaits them
Futures == {"asyncio.sleep"}

\* Every await of a coroutine taken as a point where the loop may switch
YieldsAtEveryAwait(awaited) == TRUE

\* Whether `await awaited` can hand the event loop to another task
RECURSIVE Yields(_)
Yields(awaited) ==
    \/ awaited \in Futures
    \/ \E c \in InnerAwaits(awaited) : Yields(c)

\* Runs of reload and of add_rule in one behaviour
MaxReloads == 2

MaxAdds == 1

\* The filters of the searches
LoopFilters ==
    {f \in Filters : /\ f.limit = 50 /\ f.query = <<>> /\ f.tags = {}
                     /\ f.content_types = {} /\ f.rule_types = {}}

LoopCatalog ==
    {CursorRule(d) : d \in {MkRule("CR-1", V100, {}, TRUE),
                            MkRule("CR-1", V110, {}, TRUE)}}

LoopDisks == {{}, {MkRule("CR-2", V100, {}, TRUE), MkRule("CR-3", V100, {}, TRUE)}}

EngineState == [rules |-> eng_rules, index |-> eng_index]

DbState == [rl |-> rules, idx |-> rule_index]

\* Task t may take a step: the loop is free or t holds it.
CanRun(t) == last.op = "loop" /\ last.running \in {"none", t}

\* Who holds the loop after task t has reached `await awaited`
After(t, awaited) == IF Yields(awaited) THEN "none" ELSE t

\* asyncio.run(main()): the loop starts, no handler is running.
RunLoop ==
    /\ last.op = "input"
    /\ last' = [op |-> "loop", running |-> "none", filter |-> last.input,
                reload |-> [pc |-> "idle", count |-> 0, pending |-> <<>>,
                            before |-> EngineState],
                search |-> [pc |-> "idle", cand |-> <<>>, scores |-> <<>>,
                            allowed |-> {}, result |-> <<>>, exc |-> ""],
                add |-> [pc |-> "idle", count |-> 0, o |-> 0, before |-> DbState],
                dbsearch |-> [pc |-> "idle", allowed |-> {}, result |-> {}]]
    /\ UNCHANGED <<heap, version_history, latest_versions, rules, rule_index,
                   initialized, disk, now, eng_rules, eng_index, eng_ready>>

\* RuleEngine.reload (or initialize) is called: up to `await self.load_rules()`.
ReloadCall ==
    /\ CanRun("reload")
    /\ last.reload.pc = "idle"
    /\ last.reload.count < MaxReloads
    /\ last' = [last EXCEPT !.running = After("reload", "load_rules"),
                            !.reload.pc = "load_rules",
                            !.reload.before = EngineState]
    /\ UNCHANGED <<heap, version_history, latest_versions, rules, rule_index,
                   initialized, disk, now, eng_rules, eng_index, eng_ready>>

\* load_rules: self.rules.clear(), the files are listed, up to the first
\* `await self._load_json_rules(json_file)`.
ReloadClear ==
    /\ CanRun("reload")
    /\ last.reload.pc = "load_rules"
    /\ eng_rules' = <<>>
    /\ \E qj \in Orders({f \in disk : f.fmt = "json"}),
          qy \in Orders({f \in disk : f.fmt = "yaml"}) :
          last' = [last EXCEPT
                     !.reload.pending = qj \o qy,
                     !.reload.pc = IF qj \o qy = <<>> THEN "build_indexes"
                                   ELSE "load_file",
                     !.running = IF qj \o qy = <<>> THEN "reload"
                                 ELSE After("reload", "_load_" \o (qj \o qy)[1].fmt
                                                              \o "_rules")]
    /\ UNCHANGED <<heap, version_history, latest_versions, rules, rule_index,
                   initialized, disk, now, eng_index, eng_ready>>

\* _load_json_rules / _load_yaml_rules of one file, up to the await of the
\* next file or to the end of load_rules.
ReloadFile ==
    /\ CanRun("reload")
    /\ last.reload.pc = "load_file"
    /\ LET f == Head(last.reload.pending)
           rest == Tail(last.reload.pending)
       IN  /\ eng_rules' = Put(eng_rules, f.data.rule_id, CursorRule(f.data))
           /\ last' = [last EXCEPT
                         !.reload.pending = rest,
                         !.reload.pc = IF rest = <<>> THEN "build_indexes"
                                       ELSE "load_file",
                         !.running = IF rest = <<>> THEN "reload"
                                     ELSE After("reload", "_load_" \o rest[1].fmt
                                                              \o "_rules")]
    /\ UNCHANGED <<heap, version_history, latest_versions, rules, rule_index,
                   initialized, disk, now, eng_index, eng_ready>>

\* self.build_indexes() and the return of reload: the three indexes are
\* cleared and filled without an await.
ReloadIndex ==
    /\ CanRun("reload")
    /\ last.reload.pc = "build_indexes"
    /\ eng_index' = build_indexes(eng_rules)
    /\ eng_ready' = TRUE
    /\ last' = [last EXCEPT
                  !.running = "none",
                  !.reload.pc = "idle",
                  !.reload.count = @ + 1,
                  !.search.allowed =
                      IF last.search.pc \in {"score", "collect"}
                      THEN @ \cup {[rules |-> eng_rules,
                                    index |-> build_indexes(eng_rules)]}
                      ELSE @]
    /\ UNCHANGED <<heap, version_history, latest_versions, rules, rule_index,
                   initialized, disk, now, eng_rules>>

\* RuleEngine.search_rules is called: the candidates are taken from the
\* rule map and the indexes, up to the first
\* `await self._calculate_rule_score(rule, search_filter)`.
SearchCall ==
    /\ CanRun("search")
    /\ last.search.pc = "idle"
    /\ \E q \in Orders(EngineCandidates(eng_rules, eng_index, last.filter)) :
          last' = [last EXCEPT
                     !.search = [pc |-> "score", cand |-> q, scores |-> <<>>,
                                 allowed |-> {IF last.reload.pc = "idle"
                                              THEN EngineState
                                              ELSE last.reload.before},
                                 result |-> <<>>, exc |-> ""],
                     !.running = IF q = <<>> THEN "search"
                                 ELSE After("search", "_calculate_rule_score")]
    /\ UNCHANGED <<heap, version_history, latest_versions, rules, rule_index,
                   initialized, disk, now, eng_rules, eng_index, eng_ready>>

\* One round of the scoring loop: rule = self.rules[rule_id] and its score;
\* after the last round the scores are sorted and cut to the limit.
SearchScore ==
    /\ CanRun("search")
    /\ last.search.pc = "score"
    /\ last' =
         IF last.search.cand = <<>>
         THEN [last EXCEPT
                 !.search.pc = IF last.search.scores = <<>> THEN "done"
                               ELSE "collect",
                 !.search.cand = Truncate(SortByScore(last.search.scores),
                                          last.filter.limit),
                 !.running = IF last.search.scores = <<>> THEN "none"
                             ELSE "search"]
         ELSE IF Head(last.search.cand) \notin DOMAIN eng_rules
         THEN [last EXCEPT !.search.pc = "done", !.search.exc = "KeyError",
                           !.running = "none"]
         ELSE [last EXCEPT
                 !.search.cand = Tail(@),
                 !.search.scores =
                     Append(@, [rule_id |-> Head(last.search.cand),
                                score |-> _calculate_rule_score(
                                    eng_rules[Head(last.search.cand)],
                                    last.filter)]),
                 !.running = IF Tail(last.search.cand) = <<>> THEN "search"
                             ELSE After("search", "_calculate_rule_score")]
    /\ UNCHANGED <<heap, version_history, latest_versions, rules, rule_index,
                   initialized, disk, now, eng_rules, eng_index, eng_ready>>

\* One round of the result loop: rule = self.rules[rule_id], then the
\* awaits of _get_matched_conditions and _get_application_context.
SearchCollect ==
    /\ CanRun("search")
    /\ last.search.pc = "collect"
    /\ last' =
         IF Head(last.search.cand).rule_id \notin DOMAIN eng_rules
         THEN [last EXCEPT !.search.pc = "done", !.search.exc = "KeyError",
                           !.running = "none"]
         ELSE [last EXCEPT
                 !.search.cand = Tail(@),
                 !.search.result = Append(@, Head(last.search.cand)),
                 !.search.pc = IF Tail(last.search.cand) = <<>> THEN "done"
                               ELSE "collect",
                 !.running = IF Tail(last.search.cand) = <<>> THEN "none"
                             ELSE After("search", "_get_matched_conditions")]
    /\ UNCHANGED <<heap, version_history, latest_versions, rules, rule_index,
                   initialized, disk, now, eng_rules, eng_index, eng_ready>>

\* The caller has taken the result; search_rules may be called again.
SearchReturn ==
    /\ CanRun("search")
    /\ last.search.pc = "done"
    /\ last' = [last EXCEPT !.search.pc = "idle"]
    /\ UNCHANGED <<heap, version_history, latest_versions, rules, rule_index,
                   initialized, disk, now, eng_rules, eng_index, eng_ready>>

\* RuleDatabase.add_rule(rule, file_path) is called: the conflicts, the
\* version manager and the rule map, up to `await self._build_indexes()`.
AddCall ==
    /\ CanRun("add")
    /\ last.add.pc = "idle"
    /\ last.add.count < MaxAdds
    /\ \E a \in Args(heap, LoopCatalog) :
         LET r == add_rule(a.h, version_history, latest_versions, rules,
                           rule_index, disk, a.o, TRUE)
         IN  /\ Len(Retain(heap, a.h, r.vh, a.o)) <= MaxSearchObjs
             /\ heap' = Retain(heap, a.h, r.vh, a.o)
             /\ version_history' = r.vh
             /\ latest_versions' = r.lv
             /\ rules' = r.rl
             /\ last' = [last EXCEPT
                           !.add.o = a.o,
                           !.add.before = DbState,
                           !.add.count = @ + 1,
                           !.add.pc = IF r.ret = "true" THEN "_build_indexes"
                                      ELSE "idle",
                           !.running = IF r.ret = "true"
                                       THEN After("add", "_build_indexes")
                                       ELSE "none"]
    /\ UNCHANGED <<rule_index, initialized, disk, now, eng_rules, eng_index,
                   eng_ready>>

\* _build_indexes, save_rule and the return of add_rule.
AddIndex ==
    /\ CanRun("add")
    /\ last.add.pc = "_build_indexes"
    /\ rule_index' = _build_indexes(heap, rules)
    /\ disk' = save_rule(disk, heap[last.add.o])
    /\ last' = [last EXCEPT !.add.pc = "idle", !.running = "none"]
    /\ UNCHANGED <<heap, version_history, latest_versions, rules, initialized,
                   now, eng_rules, eng_index, eng_ready>>

\* RuleDatabase.search_rules: it awaits nothing, so it runs as one step.
DbSearchCall ==
    /\ CanRun("dbsearch")
    /\ last' = [last EXCEPT
                  !.dbsearch =
                      [pc |-> "done",
                       allowed |-> IF last.add.pc = "idle" THEN {DbState}
                                   ELSE {last.add.before,
                                         [rl |-> rules,
                                          idx |-> _build_indexes(heap, rules)]},
                       result |-> DbMatches(heap, rules, rule_index,
                                            last.filter)]]
    /\ UNCHANGED <<heap, version_history, latest_versions, rules, rule_index,
                   initialized, disk, now, eng_rules, eng_index, eng_ready>>

InitLoop == InitDrawing(LoopDisks, LoopFilters)

NextLoop ==
    \/ RunLoop
    \/ ReloadCall \/ ReloadClear \/ ReloadFile \/ ReloadIndex
    \/ SearchCall \/ SearchScore \/ SearchCollect \/ SearchReturn
    \/ AddCall \/ AddIndex
    \/ DbSearchCall

SpecLoop == InitLoop /\ [][NextLoop]_vars

\* What RuleEngine.search_rules returns on a complete engine state
EngineResults(s, f) ==
    {search_rules(s.rules, f, q) :
        q \in Orders(EngineCandidates(s.rules, s.index, f))}

-----------------------------------------------------------------------------
(* The engine after an add                                                  *)

\* C26: when add_rule has returned True for an active rule, the engine
\* search made next, with an empty filter and a limit no result exceeds,
\* returns that rule.
C26_AddedRuleIsSearchable ==
    [][(/\ last.op = "add" /\ last.ret = "true" /\ last.rule.active
        /\ last'.op = "engine_search"
        /\ EmptyFilter(last'.filter) /\ last'.filter.limit = 50)
          => /\ \E i \in 1..Len(last'.result) :
                   last'.result[i].rule_id = last.rule.rule_id
             /\ last.rule.rule_id \in DOMAIN eng_rules
             /\ eng_rules[last.rule.rule_id].version = last.rule.version]_vars

-----------------------------------------------------------------------------
(* The live rule map and the version history                                *)

\* C27: for every identifier with a non-empty version history and an entry
\* in the live rule map, the rule of the live map is the latest registered
\* version of the identifier.
C27_LiveMapHoldsLatest ==
    \A rid \in DOMAIN rules \cap DOMAIN version_history :
        version_history[rid] # <<>>
            => /\ heap[rules[rid]].version = latest_versions[rid]
               /\ rules[rid] = get_latest_rule(heap, version_history,
                                               latest_versions, rid)

-----------------------------------------------------------------------------
(* The effect of a call that does not succeed                               *)

\* C28: a call of add_rule or update_rule that does not return True leaves
\* the version history, the latest pointers, the live rule map, the indexes
\* and every rule object that existed before the call, the one passed by
\* the caller included, as they were.
C28_FailedCallChangesNothing ==
    [][(last'.op \in {"add", "update"} /\ last'.ret # "true")
          => /\ version_history' = version_history
             /\ latest_versions' = latest_versions
             /\ rules' = rules
             /\ rule_index' = rule_index
             /\ Len(heap') >= Len(heap)
             /\ \A o \in 1..Len(heap) : heap'[o] = heap[o]]_vars

-----------------------------------------------------------------------------
(* The import log and the database                                          *)

\* The lists of rules import_rules hands to the saving loop of
\* import_rules_async, and the merge flag of the call.
ParsedBatches ==
    {[rules |-> q, merge |-> m] :
        q \in UNION {[1..k -> Catalog] : k \in 0..MaxBatch}, m \in BOOLEAN}

\* The saving loop of import_rules_async on a database in its state after
\* construction, the log of the importer being empty.
SaveImported ==
    /\ last.op = "input"
    /\ \E s \in {SaveRules([h |-> heap, vh |-> version_history,
                            lv |-> latest_versions, rl |-> rules,
                            idx |-> rule_index, dk |-> disk, log |-> <<>>],
                           last.input.rules, last.input.merge)} :
          /\ heap' = s.h
          /\ version_history' = s.vh
          /\ latest_versions' = s.lv
          /\ rules' = s.rl
          /\ rule_index' = s.idx
          /\ disk' = s.dk
          /\ last' = [op |-> "saved", rules |-> last.input.rules,
                      merge |-> last.input.merge, log |-> s.log]
    /\ UNCHANGED <<initialized, now, eng_rules, eng_index, eng_ready>>

InitSave == InitDrawing({{}, DiskRules}, ParsedBatches)

NextSave == SaveImported

SpecSave == InitSave /\ [][NextSave]_vars

-----------------------------------------------------------------------------
(* A restart on the same data directory                                     *)

\* The process ends and a new one runs RuleDatabase(data_dir) and
\* initialize() on the directory as it is: the rule map is what load_rules
\* reads, the version manager is new, the engine is not yet initialized.
Restart ==
    /\ \E h \in {LoadedHeap(disk)} :
          /\ heap' = h
          /\ rules' = LoadedRules(h)
          /\ rule_index' = _build_indexes(h, LoadedRules(h))
    /\ version_history' = <<>>
    /\ latest_versions' = <<>>
    /\ initialized' = TRUE
    /\ eng_rules' = <<>>
    /\ eng_index' = [tags |-> <<>>, languages |-> <<>>, domains |-> <<>>]
    /\ eng_ready' = FALSE
    /\ last' = [op |-> "restart"]
    /\ UNCHANGED <<disk, now>>

InitRestart == InitOf({{}, DiskRules})

NextRestart == Initialize \/ AddAndPersist \/ Restart

SpecRestart == InitRestart /\ [][NextRestart]_vars

\* C30: after a restart, every rule version that add_rule wrote to the data
\* directory, in the file {rule_id}.{version with _ for .}.yaml, is returned
\* by get_rule(rule_id) and by get_rule(rule_id, version).
C30_PersistedHeldAfterRestart ==
    last.op = "restart" =>
        \A f \in {g \in disk : g.fmt = "yaml"} :
            /\ f.name = _get_rule_file_path(f.data)
            /\ get_rule(heap, version_history, rules, f.data.rule_id, <<>>) # 0
            /\ LET o == get_rule(heap, version_history, rules, f.data.rule_id,
                                 f.data.version)
               IN  o # 0 /\ heap[o].version = f.data.version

====
